---- MODULE Spec2Model ----
(***************************************************************************)
(* Metadata-driven validation engine: the DatabaseValidator validators of  *)
(* validations/db_validations.py over the DatabaseConnector primitives of  *)
(* utils/db_connector.py.                                                  *)
(*                                                                         *)
(* Strings whose characters the code inspects (upper(), lower(), "in",     *)
(* split, f-string concatenation) are sequences of one-character strings.  *)
(* Strings that are only compared for equality (feed, field and            *)
(* enumeration names, messages) are TLA+ strings.  Python's None is the    *)
(* empty set and a present optional value v is {v}.                        *)
(* Percentages are exact: a completeness value is kept in hundredths of a  *)
(* percent (9500 is 95.00) after rounding, and compared unrounded through  *)
(* integer cross-multiplication.                                           *)
(***************************************************************************)
EXTENDS Integers, Sequences, FiniteSets, TLC

VARIABLES
    metadata,             \* List[FeedMetadata] handed to the validators
    enumeration_metadata, \* List[EnumerationMetadata]
    expected_counts,      \* Optional[Dict[str, int]] of validate_count_checks
    selected_feeds,       \* Optional[List[str]] feed filter of the calls
    store,                \* the live relational stores behind db_connector
    validator,            \* the validator that ran last ("none" before any)
    results,              \* the list the last validator call returned
    calls,                \* Data Access calls the last validator call made
    earlier,              \* the first call of the run and what it returned,
                          \* where the run is recorded (armed)
    workbook,             \* the sheets of the metadata workbook
    run                   \* the validator call in progress and its position

vars == <<metadata, enumeration_metadata, expected_counts, selected_feeds,
          store, validator, results, calls, earlier, workbook, run>>

(***************************************************************************)
(* Bounds of the model.                                                    *)
(***************************************************************************)
MaxMeta == 2
SmallRows == 20
BigRows == 100000
MaxRows == 2
MaxFeedLen == 4

(***************************************************************************)
(* Python values.                                                          *)
(***************************************************************************)
NoneV == {}

Some(v) == {v}

Get(o) == CHOOSE v \in o : TRUE

Range(s) == {s[i] : i \in DOMAIN s}

RECURSIVE Flatten(_)
Flatten(ss) == IF ss = <<>> THEN <<>> ELSE Head(ss) \o Flatten(Tail(ss))

\* bool(x) of an Optional[str]: None and '' are falsy.
Truthy(o) == o # NoneV /\ Get(o) # ""

(***************************************************************************)
(* Character strings: str.upper, str.lower, the "in" substring test.       *)
(***************************************************************************)
UpperLetters == <<"A", "B", "C", "D", "E", "F", "G", "H", "I", "J", "K", "L", "M",
                  "N", "O", "P", "Q", "R", "S", "T", "U", "V", "W", "X", "Y", "Z">>

LowerLetters == <<"a", "b", "c", "d", "e", "f", "g", "h", "i", "j", "k", "l", "m",
                  "n", "o", "p", "q", "r", "s", "t", "u", "v", "w", "x", "y", "z">>

UpperChar(c) ==
    IF \E i \in DOMAIN LowerLetters : LowerLetters[i] = c
    THEN UpperLetters[CHOOSE i \in DOMAIN LowerLetters : LowerLetters[i] = c]
    ELSE c

LowerChar(c) ==
    IF \E i \in DOMAIN UpperLetters : UpperLetters[i] = c
    THEN LowerLetters[CHOOSE i \in DOMAIN UpperLetters : UpperLetters[i] = c]
    ELSE c

Upper(s) == [i \in DOMAIN s |-> UpperChar(s[i])]

Lower(s) == [i \in DOMAIN s |-> LowerChar(s[i])]

\* Python's "sub in s" on strings.
Contains(sub, s) ==
    \E i \in 0..(Len(s) - Len(sub)) : SubSeq(s, i + 1, i + Len(sub)) = sub

\* Mutant: the flag is compared without folding its case.
IsY_case_sensitive(flag) == flag = <<"Y">>

IsY(flag) == Upper(flag) = <<"Y">>

(***************************************************************************)
(* Names used by the inputs.                                               *)
(***************************************************************************)
DbPlain == <<"d">>

DbDotted == <<"d", ".", "x">>

DbServer2 == <<"S", "e", "r", "v", "e", "r", "2">>

TblPlain == <<"t">>

TblDotted == <<"x", ".", "t">>

FlagY == <<"Y">>

FlagN == <<"N">>

FlagLowerY == <<"y">>

ReqInsert == <<"I", "n", "s", "e", "r", "t">>

ReqAppend == <<"A", "p", "p", "e", "n", "d">>

ReqLowerAppend == <<"a", "p", "p", "e", "n", "d">>

ReqOther == <<"U", "p", "s", "e", "r", "t">>

TypeInteger == <<"I", "N", "T", "E", "G", "E", "R">>

TypeInt == <<"I", "N", "T">>

TypeVarchar == <<"V", "A", "R", "C", "H", "A", "R">>

TypeDate == <<"D", "A", "T", "E">>

TypeMoney == <<"M", "O", "N", "E", "Y">>

TypeVarchar50 == <<"v", "a", "r", "c", "h", "a", "r", "(", "5", "0", ")">>

\* A DataType cell that names a date kept as text.
TypeDateAsText == <<"D", "A", "T", "E", "(", "V", "A", "R", "C", "H", "A", "R", ")">>

(***************************************************************************)
(* The relational stores.  A physical table is <<engine, table name>>.     *)
(* Its facts: status ("up"; "conn": the store is unreachable; "intro":     *)
(* the store answers queries but the table cannot be described), rows,     *)
(* schema (the inspector's column list, in order, names distinct) and, per *)
(* column name a query may mention, bad (the query raises), nulls,         *)
(* distinct, below, above (row counts outside a range bound) and vals (the *)
(* number of rows holding each non-null value).  A table absent from the   *)
(* store, or a column absent from q, makes the query raise.                *)
(***************************************************************************)
Server1Name == <<"s", "e", "r", "v", "e", "r", "1">>

Server2Name == <<"s", "e", "r", "v", "e", "r", "2">>

get_engine(db_name) ==
    IF Contains(Server1Name, Lower(db_name)) THEN "server1"
    ELSE IF Contains(Server2Name, Lower(db_name)) THEN "server2"
    ELSE "server1"

MissingTable ==
    [status |-> "missing", rows |-> 0, schema |-> <<>>, q |-> <<>>]

StoreAt(st, db_name, table_name) ==
    LET id == <<get_engine(db_name), table_name>>
    IN IF id \in DOMAIN st THEN st[id] ELSE MissingTable

Ok(v) == [ok |-> TRUE, val |-> v, msg |-> ""]

Raise(m) == [ok |-> FALSE, val |-> NoneV, msg |-> m]

ErrorOf(status) ==
    CASE status = "conn" -> "connection failed"
      [] status = "intro" -> "cannot describe table"
      [] OTHER -> "no such table"

\* pd.read_sql_query on the table the names resolve to.
query_table(tb, col) ==
    IF tb.status \in {"conn", "missing"} THEN Raise(ErrorOf(tb.status))
    ELSE IF col # NoneV /\ (Get(col) \notin DOMAIN tb.q \/ tb.q[Get(col)].bad)
    THEN Raise("invalid column")
    ELSE Ok(tb)

\* execute_query on a table, mentioning column col (NoneV: no column).
execute_query(st, db_name, table_name, col) ==
    query_table(StoreAt(st, db_name, table_name), col)

\* inspector.get_columns on the table the names resolve to.
describe_table(tb) ==
    IF tb.status # "up" THEN Raise(ErrorOf(tb.status))
    ELSE Ok([columns |-> tb.schema])

get_table_schema(st, db_name, table_name) ==
    describe_table(StoreAt(st, db_name, table_name))

\* The probe "SELECT 1" is served when the engine serves any of its tables.
EngineUp(st, engine) ==
    \E id \in DOMAIN st : id[1] = engine /\ st[id].status # "conn"

\* Mutant: a failed probe is re-raised.
test_connection_raising(st, db_name) ==
    IF EngineUp(st, get_engine(db_name)) THEN Ok(TRUE) ELSE Raise("connection failed")

\* "return True" after the probe, "except Exception as e: ... return False".
test_connection(st, db_name) == Ok(EngineUp(st, get_engine(db_name)))

\* "except Exception as e: ... return False": a store that cannot be reached
\* is answered like a table that is not there.
check_table_exists(st, db_name, table_name) ==
    LET tb == StoreAt(st, db_name, table_name)
    IN IF tb.status = "conn" THEN Ok(FALSE)
       ELSE Ok(tb.status # "missing")

get_row_count(st, db_name, table_name) ==
    LET r == execute_query(st, db_name, table_name, NoneV)
    IN IF r.ok THEN Ok(r.val.rows) ELSE r

check_nullable_constraints(st, db_name, table_name, column_name) ==
    LET schema == get_table_schema(st, db_name, table_name)
        found == IF schema.ok
                 THEN {i \in DOMAIN schema.val.columns :
                          schema.val.columns[i].name = column_name}
                 ELSE {}
        column_nullable ==
            IF found = {} THEN NoneV
            ELSE Some(schema.val.columns[CHOOSE i \in found :
                           \A j \in found : i <= j].nullable)
        r == execute_query(st, db_name, table_name, Some(column_name))
    IN IF ~schema.ok THEN schema
       ELSE IF ~r.ok THEN r
       ELSE Ok([nullable |-> column_nullable,
                null_count |-> r.val.q[column_name].nulls])

check_unique_constraints(st, db_name, table_name, column_name) ==
    LET total == execute_query(st, db_name, table_name, NoneV)
        distinct == execute_query(st, db_name, table_name, Some(column_name))
    IN IF ~total.ok THEN total
       ELSE IF ~distinct.ok THEN distinct
       ELSE Ok([total_count |-> total.val.rows,
                distinct_count |-> distinct.val.q[column_name].distinct])

\* Mutant: both bounds are queried whether present or not.
check_range_constraints_both(st, db_name, table_name, column_name, range_bottom, range_top) ==
    LET r == execute_query(st, db_name, table_name, Some(column_name))
    IN IF ~r.ok THEN r
       ELSE Ok([below_range |-> Some(r.val.q[column_name].below),
                above_range |-> Some(r.val.q[column_name].above)])

check_range_constraints(st, db_name, table_name, column_name, range_bottom, range_top) ==
    LET r == execute_query(st, db_name, table_name, Some(column_name))
    IN IF (Truthy(range_bottom) \/ Truthy(range_top)) /\ ~r.ok THEN r
       ELSE Ok([below_range |-> IF Truthy(range_bottom)
                                THEN Some(r.val.q[column_name].below) ELSE NoneV,
                above_range |-> IF Truthy(range_top)
                                THEN Some(r.val.q[column_name].above) ELSE NoneV])

RECURSIVE SumOver(_, _)
SumOver(f, S) ==
    IF S = {} THEN 0
    ELSE LET x == CHOOSE x \in S : TRUE IN f[x] + SumOver(f, S \ {x})

check_enumeration_constraints(st, db_name, table_name, column_name, allowed_values) ==
    LET r == execute_query(st, db_name, table_name, Some(column_name))
    IN IF ~r.ok THEN r
       ELSE LET vals == r.val.q[column_name].vals
            IN Ok(SumOver(vals, DOMAIN vals \ Range(allowed_values)))

(***************************************************************************)
(* _compare_data_types and DatabaseConnector.validate_data_types.          *)
(***************************************************************************)
type_mappings ==
    << {<<"V","A","R","C","H","A","R">>, <<"N","V","A","R","C","H","A","R">>,
        <<"T","E","X","T">>, <<"S","T","R","I","N","G">>},
       {<<"I","N","T","E","G","E","R">>, <<"I","N","T">>,
        <<"B","I","G","I","N","T">>, <<"S","M","A","L","L","I","N","T">>},
       {<<"D","E","C","I","M","A","L">>, <<"N","U","M","E","R","I","C">>,
        <<"F","L","O","A","T">>, <<"R","E","A","L">>},
       {<<"D","A","T","E","T","I","M","E">>, <<"T","I","M","E","S","T","A","M","P">>,
        <<"D","A","T","E">>, <<"T","I","M","E">>},
       {<<"B","O","O","L","E","A","N">>, <<"B","I","T">>} >>

compare_data_types(actual_type, expected_type) ==
    \/ \E b \in DOMAIN type_mappings :
          /\ \E variant \in type_mappings[b] : Contains(variant, actual_type)
          /\ \E variant \in type_mappings[b] : Contains(variant, expected_type)
    \/ actual_type = expected_type

\* expected_schema is the dict {field_name: data_type}: a function.
connector_validate_data_types(st, db_name, table_name, expected_schema) ==
    LET schema == get_table_schema(st, db_name, table_name)
    IN IF ~schema.ok THEN schema
       ELSE Ok([i \in DOMAIN schema.val.columns |->
                  LET column_info == schema.val.columns[i]
                  IN [column_name |-> column_info.name,
                      is_valid |->
                        IF column_info.name \in DOMAIN expected_schema
                        THEN compare_data_types(Upper(column_info.type),
                                 Upper(expected_schema[column_info.name]))
                        ELSE FALSE]])

(***************************************************************************)
(* DatabaseValidator: what the validators share.                           *)
(***************************************************************************)
Call(op, db_name, table_name, col) ==
    [op |-> op, db_name |-> db_name, table_name |-> table_name, column_name |-> col]

\* Mutant: no message is ever set.
Msg_unset(text, detail) == NoneV

\* error_message is None or a text, kept as the sequence of its parts: the
\* fixed part and the exception message, or the "; "-joined messages.  The
\* numbers interpolated into FAIL messages repeat fields of the record and
\* are left out.
Msg(text, detail) == Some(<<text, detail>>)

\* A record of the metadata list is a FeedMetadata or, when the list was taken
\* from the staging sheet, a StagingMetadata, which has the constraint fields
\* but no feed, field_name, db_name or db_table.
IsFeed(meta) == "feed" \in DOMAIN meta

Foreign(md) == \E i \in DOMAIN md : ~IsFeed(md[i])

\* The records in front of the first one that is not a FeedMetadata.
BeforeForeign(md) ==
    SubSeq(md, 1, Cardinality({i \in DOMAIN md : \A j \in 1..i : IsFeed(md[j])}))

\* "if selected_feeds:"
Filtering(selected) == selected # NoneV /\ Get(selected) # <<>>

\* "except Exception as e: return [{...}]" around a whole validator call:
\* what was collected is dropped and one record of three keys is returned.
\* The calls made before the exception stay made.
caught(name, text, attr, log) ==
    [results |-> <<[validation_type |-> name,
                    validation_status |-> "ERROR",
                    error_message |-> Msg(text, attr)]>>,
     calls |-> log]

\* The attribute whose read raises: meta.feed in the filter, else meta.db_name.
MissingAttr(selected) ==
    IF Filtering(selected) THEN "no attribute 'feed'" ELSE "no attribute 'db_name'"

\* Mutant: the filter is not applied.
FilterFeeds_ignored(md, selected) == md

\* "if selected_feeds: metadata = [meta for meta in metadata if meta.feed in
\* selected_feeds]".  selected_feeds is None or a list; None and [] are falsy.
FilterFeeds(md, selected) ==
    IF selected # NoneV /\ Get(selected) # <<>>
    THEN SelectSeq(md, LAMBDA meta : meta.feed \in Range(Get(selected)))
    ELSE md

\* key = f"{meta.db_name}.{meta.db_table}"
KeyOf(meta) == meta.db_name \o <<".">> \o meta.db_table

\* table_key.split('.', 1)
SplitKey(table_key) ==
    LET i == CHOOSE i \in DOMAIN table_key :
                 table_key[i] = "." /\ \A j \in 1..(i - 1) : table_key[j] # "."
    IN [db_name |-> SubSeq(table_key, 1, i - 1),
        table_name |-> SubSeq(table_key, i + 1, Len(table_key))]

\* table_groups: one entry per key, in the order the keys first occur, each
\* holding the records of that key in input order.
TableGroups(md) ==
    LET idx == [i \in 1..Len(md) |-> i]
        firsts == SelectSeq(idx, LAMBDA i :
                      \A j \in 1..(i - 1) : KeyOf(md[j]) # KeyOf(md[i]))
    IN [g \in DOMAIN firsts |->
          [table_key |-> KeyOf(md[firsts[g]]),
           table_metadata |-> SelectSeq(md, LAMBDA meta :
                                  KeyOf(meta) = KeyOf(md[firsts[g]]))]]

\* A validator's loop: the records and the Data Access calls of its units, in
\* unit order.  outs[i] is [rec, calls] of unit i.
Collect(outs) ==
    [results |-> [i \in DOMAIN outs |-> outs[i].rec],
     calls |-> Flatten([i \in DOMAIN outs |-> outs[i].calls])]

(***************************************************************************)
(* validate_nullable_constraints                                           *)
(***************************************************************************)
\* Mutant: only the schema flag is compared.
nullable_error_messages_flag_only(meta, actual_nullable, null_count) ==
    IF actual_nullable # Some(IsY(meta.nullable))
    THEN <<"Nullable setting mismatch">> ELSE <<>>

\* The messages of the two checks that failed, in the code's order.
nullable_error_messages(meta, actual_nullable, null_count) ==
    (IF IsY(meta.mandatory) /\ null_count > 0
     THEN <<"Mandatory field has null values">> ELSE <<>>)
    \o
    (IF actual_nullable # Some(IsY(meta.nullable))
     THEN <<"Nullable setting mismatch">> ELSE <<>>)

nullable_unit(meta, st) ==
    LET result == [validation_type |-> "nullable_constraint",
                   db_name |-> meta.db_name,
                   table_name |-> meta.db_table,
                   column_name |-> meta.field_name,
                   feed_name |-> meta.feed,
                   expected_nullable |-> meta.nullable,
                   expected_mandatory |-> meta.mandatory,
                   actual_nullable |-> NoneV,
                   null_count |-> 0,
                   validation_status |-> "PASS",
                   error_message |-> NoneV]
        r == check_nullable_constraints(st, meta.db_name, meta.db_table, meta.field_name)
        log == <<Call("check_nullable_constraints", meta.db_name, meta.db_table,
                      Some(meta.field_name))>>
    IN IF ~r.ok
       THEN [rec |-> [result EXCEPT
                        !.validation_status = "ERROR",
                        !.error_message =
                            Msg("Error validating nullable constraints: ", r.msg)],
             calls |-> log]
       ELSE LET got == [result EXCEPT !.actual_nullable = r.val.nullable,
                                      !.null_count = r.val.null_count]
                error_messages ==
                    nullable_error_messages(meta, r.val.nullable, r.val.null_count)
            IN [rec |-> IF error_messages = <<>>
                        THEN got
                        ELSE [got EXCEPT
                                !.validation_status = "FAIL",
                                !.error_message = Some(error_messages)],
                calls |-> log]

validate_nullable_constraints(md, selected, st) ==
    IF Filtering(selected) /\ Foreign(md)
    THEN caught("nullable_constraint", "Error in nullable constraints validation: ", "no attribute 'feed'", <<>>)
    ELSE LET units == FilterFeeds(md, selected)
             done == BeforeForeign(units)
             out == Collect([i \in DOMAIN done |-> nullable_unit(done[i], st)])
         IN IF Foreign(units)
            THEN caught("nullable_constraint", "Error in nullable constraints validation: ", "no attribute 'db_name'", out.calls)
            ELSE out

(***************************************************************************)
(* validate_unique_constraints                                             *)
(***************************************************************************)
\* Mutant: every record is in scope.
UniqueScope_all(md) == md

UniqueScope(md) == SelectSeq(md, LAMBDA meta : IsY(meta.unique))

unique_unit(meta, st) ==
    LET result == [validation_type |-> "unique_constraint",
                   db_name |-> meta.db_name,
                   table_name |-> meta.db_table,
                   column_name |-> meta.field_name,
                   feed_name |-> meta.feed,
                   expected_unique |-> meta.unique,
                   total_count |-> 0,
                   distinct_count |-> 0,
                   duplicate_count |-> 0,
                   validation_status |-> "PASS",
                   error_message |-> NoneV]
        r == check_unique_constraints(st, meta.db_name, meta.db_table, meta.field_name)
        log == <<Call("check_unique_constraints", meta.db_name, meta.db_table,
                      Some(meta.field_name))>>
    IN IF ~r.ok
       THEN [rec |-> [result EXCEPT
                        !.validation_status = "ERROR",
                        !.error_message =
                            Msg("Error validating unique constraints: ", r.msg)],
             calls |-> log]
       ELSE LET got == [result EXCEPT
                          !.total_count = r.val.total_count,
                          !.distinct_count = r.val.distinct_count,
                          !.duplicate_count = r.val.total_count - r.val.distinct_count]
            IN [rec |-> IF r.val.total_count # r.val.distinct_count
                        THEN [got EXCEPT
                                !.validation_status = "FAIL",
                                !.error_message =
                                    Msg("Column should be unique but has duplicates", "")]
                        ELSE got,
                calls |-> log]

validate_unique_constraints(md, selected, st) ==
    IF Filtering(selected) /\ Foreign(md)
    THEN caught("unique_constraint", "Error in unique constraints validation: ", "no attribute 'feed'", <<>>)
    ELSE LET units == UniqueScope(FilterFeeds(md, selected))
             done == BeforeForeign(units)
             out == Collect([i \in DOMAIN done |-> unique_unit(done[i], st)])
         IN IF Foreign(units)
            THEN caught("unique_constraint", "Error in unique constraints validation: ", "no attribute 'db_name'", out.calls)
            ELSE out

(***************************************************************************)
(* validate_range_constraints                                              *)
(***************************************************************************)
RangeScope(md) ==
    SelectSeq(md, LAMBDA meta : Truthy(meta.range_bottom) \/ Truthy(meta.range_top))

\* range_results.get(key, 0)
GetOr0(o) == IF o = NoneV THEN 0 ELSE Get(o)

range_unit(meta, st) ==
    LET result == [validation_type |-> "range_constraint",
                   db_name |-> meta.db_name,
                   table_name |-> meta.db_table,
                   column_name |-> meta.field_name,
                   feed_name |-> meta.feed,
                   range_bottom |-> meta.range_bottom,
                   range_top |-> meta.range_top,
                   below_range_count |-> 0,
                   above_range_count |-> 0,
                   validation_status |-> "PASS",
                   error_message |-> NoneV]
        r == check_range_constraints(st, meta.db_name, meta.db_table, meta.field_name,
                                     meta.range_bottom, meta.range_top)
        log == <<Call("check_range_constraints", meta.db_name, meta.db_table,
                      Some(meta.field_name))>>
    IN IF ~r.ok
       THEN [rec |-> [result EXCEPT
                        !.validation_status = "ERROR",
                        !.error_message =
                            Msg("Error validating range constraints: ", r.msg)],
             calls |-> log]
       ELSE LET got == [result EXCEPT
                          !.below_range_count = GetOr0(r.val.below_range),
                          !.above_range_count = GetOr0(r.val.above_range)]
            IN [rec |-> IF got.below_range_count + got.above_range_count > 0
                        THEN [got EXCEPT
                                !.validation_status = "FAIL",
                                !.error_message = Msg("Range violations", "")]
                        ELSE got,
                calls |-> log]

validate_range_constraints(md, selected, st) ==
    IF Filtering(selected) /\ Foreign(md)
    THEN caught("range_constraint", "Error in range constraints validation: ", "no attribute 'feed'", <<>>)
    ELSE LET units == RangeScope(FilterFeeds(md, selected))
             done == BeforeForeign(units)
             out == Collect([i \in DOMAIN done |-> range_unit(done[i], st)])
         IN IF Foreign(units)
            THEN caught("range_constraint", "Error in range constraints validation: ", "no attribute 'db_name'", out.calls)
            ELSE out

(***************************************************************************)
(* validate_enumeration_constraints                                        *)
(***************************************************************************)
EnumScope(md) == SelectSeq(md, LAMBDA meta : Truthy(meta.enumeration))

\* Mutant: the rows of every name are taken.
EnumLookup_any_name(enum_md, name) == [i \in DOMAIN enum_md |-> enum_md[i].enum_values]

\* enum_lookup.get(name, []): the values of the catalog rows of that name, in
\* catalog order.
EnumLookup(enum_md, name) ==
    LET rows == SelectSeq(enum_md, LAMBDA e : e.enumeration_name = name)
    IN [i \in DOMAIN rows |-> rows[i].enum_values]

\* Mutant: the store is queried before the reference is resolved.
enumeration_unit_query_first(meta, enum_md, st) ==
    LET allowed_values == EnumLookup(enum_md, Get(meta.enumeration))
        r == check_enumeration_constraints(st, meta.db_name, meta.db_table,
                                           meta.field_name, allowed_values)
        result == [validation_type |-> "enumeration_constraint",
                   db_name |-> meta.db_name,
                   table_name |-> meta.db_table,
                   column_name |-> meta.field_name,
                   feed_name |-> meta.feed,
                   enumeration_name |-> meta.enumeration,
                   allowed_values |-> allowed_values,
                   invalid_count |-> IF r.ok THEN r.val ELSE 0,
                   validation_status |-> "PASS",
                   error_message |-> NoneV]
        log == <<Call("check_enumeration_constraints", meta.db_name, meta.db_table,
                      Some(meta.field_name))>>
    IN IF allowed_values = <<>>
       THEN [rec |-> [result EXCEPT
                        !.validation_status = "ERROR",
                        !.error_message = Msg("Enumeration not found in metadata", "")],
             calls |-> log]
       ELSE IF ~r.ok
       THEN [rec |-> [result EXCEPT
                        !.validation_status = "ERROR",
                        !.error_message =
                            Msg("Error validating enumeration constraints: ", r.msg)],
             calls |-> log]
       ELSE [rec |-> IF r.val > 0
                     THEN [result EXCEPT
                             !.validation_status = "FAIL",
                             !.error_message =
                                 Msg("Found values not in allowed enumeration", "")]
                     ELSE result,
             calls |-> log]

\* Mutant: an unresolved reference is reported as a data failure.
enumeration_unit_unresolved_fails(meta, enum_md, st) ==
    LET allowed_values == EnumLookup(enum_md, Get(meta.enumeration))
        r == check_enumeration_constraints(st, meta.db_name, meta.db_table,
                                           meta.field_name, allowed_values)
        result == [validation_type |-> "enumeration_constraint",
                   db_name |-> meta.db_name,
                   table_name |-> meta.db_table,
                   column_name |-> meta.field_name,
                   feed_name |-> meta.feed,
                   enumeration_name |-> meta.enumeration,
                   allowed_values |-> allowed_values,
                   invalid_count |-> 0,
                   validation_status |-> "PASS",
                   error_message |-> NoneV]
        log == <<Call("check_enumeration_constraints", meta.db_name, meta.db_table,
                      Some(meta.field_name))>>
    IN IF allowed_values = <<>>
       THEN [rec |-> [result EXCEPT
                        !.validation_status = "FAIL",
                        !.error_message = Msg("Enumeration not found in metadata", "")],
             calls |-> <<>>]
       ELSE IF ~r.ok
       THEN [rec |-> [result EXCEPT
                        !.validation_status = "ERROR",
                        !.error_message =
                            Msg("Error validating enumeration constraints: ", r.msg)],
             calls |-> log]
       ELSE [rec |-> IF r.val > 0
                     THEN [result EXCEPT
                             !.invalid_count = r.val,
                             !.validation_status = "FAIL",
                             !.error_message =
                                 Msg("Found values not in allowed enumeration", "")]
                     ELSE result,
             calls |-> log]

enumeration_unit(meta, enum_md, st) ==
    LET allowed_values == EnumLookup(enum_md, Get(meta.enumeration))
        result == [validation_type |-> "enumeration_constraint",
                   db_name |-> meta.db_name,
                   table_name |-> meta.db_table,
                   column_name |-> meta.field_name,
                   feed_name |-> meta.feed,
                   enumeration_name |-> meta.enumeration,
                   allowed_values |-> allowed_values,
                   invalid_count |-> 0,
                   validation_status |-> "PASS",
                   error_message |-> NoneV]
        r == check_enumeration_constraints(st, meta.db_name, meta.db_table,
                                           meta.field_name, allowed_values)
        log == <<Call("check_enumeration_constraints", meta.db_name, meta.db_table,
                      Some(meta.field_name))>>
    IN IF allowed_values = <<>>
       THEN [rec |-> [result EXCEPT
                        !.validation_status = "ERROR",
                        !.error_message = Msg("Enumeration not found in metadata", "")],
             calls |-> <<>>]
       ELSE IF ~r.ok
       THEN [rec |-> [result EXCEPT
                        !.validation_status = "ERROR",
                        !.error_message =
                            Msg("Error validating enumeration constraints: ", r.msg)],
             calls |-> log]
       ELSE LET got == [result EXCEPT !.invalid_count = r.val]
            IN [rec |-> IF r.val > 0
                        THEN [got EXCEPT
                                !.validation_status = "FAIL",
                                !.error_message =
                                    Msg("Found values not in allowed enumeration", "")]
                        ELSE got,
                calls |-> log]

validate_enumeration_constraints(md, enum_md, selected, st) ==
    IF Filtering(selected) /\ Foreign(md)
    THEN caught("enumeration_constraint", "Error in enumeration constraints validation: ", "no attribute 'feed'", <<>>)
    ELSE LET units == EnumScope(FilterFeeds(md, selected))
             done == BeforeForeign(units)
             out == Collect([i \in DOMAIN done |-> enumeration_unit(done[i], enum_md, st)])
         IN IF Foreign(units)
            THEN caught("enumeration_constraint", "Error in enumeration constraints validation: ", "no attribute 'db_name'", out.calls)
            ELSE out

(***************************************************************************)
(* validate_data_types.  FeedMetadata has no skiprow and no where_clause   *)
(* attribute, so the skiprow tests keep every record and where_clause      *)
(* stays None.                                                             *)
(***************************************************************************)
\* expected_schema[meta.field_name] = meta.data_type, later records overwriting.
ExpectedSchema(table_metadata) ==
    [f \in {table_metadata[i].field_name : i \in DOMAIN table_metadata} |->
        LET last == CHOOSE i \in DOMAIN table_metadata :
                      /\ table_metadata[i].field_name = f
                      /\ \A j \in DOMAIN table_metadata :
                            table_metadata[j].field_name = f => j <= i
        IN table_metadata[last].data_type]

\* next((m for m in table_metadata if m.field_name == column_name), None)
ExpectedTypeOf(table_metadata, column_name) ==
    LET found == {i \in DOMAIN table_metadata :
                     table_metadata[i].field_name = column_name}
    IN IF found = {} THEN <<"U","n","k","n","o","w","n">>
       ELSE table_metadata[CHOOSE i \in found : \A j \in found : i <= j].data_type

data_type_unit(group, st) ==
    LET db_name == SplitKey(group.table_key).db_name
        table_name == SplitKey(group.table_key).table_name
        table_metadata == group.table_metadata
        result == [validation_type |-> "data_type",
                   db_name |-> db_name,
                   table_name |-> table_name,
                   feed_name |-> table_metadata[1].feed,
                   column_validations |-> <<>>,
                   validation_status |-> "PASS",
                   error_message |-> NoneV]
        actual_schema == get_table_schema(st, db_name, table_name)
        r == connector_validate_data_types(st, db_name, table_name,
                                           ExpectedSchema(table_metadata))
        log1 == <<Call("get_table_schema", db_name, table_name, NoneV)>>
        log2 == log1 \o <<Call("validate_data_types", db_name, table_name, NoneV)>>
    IN IF ~actual_schema.ok
       THEN [rec |-> [result EXCEPT
                        !.validation_status = "ERROR",
                        !.error_message =
                            Msg("Error validating data types: ", actual_schema.msg)],
             calls |-> log1]
       ELSE IF ~r.ok
       THEN [rec |-> [result EXCEPT
                        !.validation_status = "ERROR",
                        !.error_message = Msg("Error validating data types: ", r.msg)],
             calls |-> log2]
       ELSE [rec |-> [result EXCEPT
                        !.column_validations =
                            [i \in DOMAIN r.val |->
                               [column_name |-> r.val[i].column_name,
                                expected_type |->
                                    ExpectedTypeOf(table_metadata, r.val[i].column_name),
                                validation_passed |-> r.val[i].is_valid,
                                error_message |->
                                    IF r.val[i].is_valid THEN NoneV
                                    ELSE Msg("Data type mismatch for column", "")]],
                        !.validation_status =
                            IF \E i \in DOMAIN r.val : ~r.val[i].is_valid
                            THEN "FAIL" ELSE "PASS"],
             calls |-> log2]

validate_data_types(md, selected, st) ==
    IF Foreign(md)
    THEN caught("data_type", "Error in data type validation: ", MissingAttr(selected), <<>>)
    ELSE LET groups == TableGroups(FilterFeeds(md, selected))
         IN Collect([g \in DOMAIN groups |-> data_type_unit(groups[g], st)])

(***************************************************************************)
(* validate_insert_append_logic                                            *)
(***************************************************************************)
\* Mutant: the request mode of the group's last record is read.
insert_append_unit_last_mode(group, st) ==
    LET db_name == SplitKey(group.table_key).db_name
        table_name == SplitKey(group.table_key).table_name
        request_type == group.table_metadata[Len(group.table_metadata)].request
        r == get_row_count(st, db_name, table_name)
        known == Upper(request_type) \in {Upper(ReqInsert), Upper(ReqAppend)}
    IN [rec |-> [validation_type |-> "insert_append_logic",
                 db_name |-> db_name,
                 table_name |-> table_name,
                 feed_name |-> group.table_metadata[1].feed,
                 request_type |-> request_type,
                 current_row_count |-> IF r.ok THEN r.val ELSE 0,
                 expected_behavior |->
                     IF ~r.ok \/ ~known THEN ""
                     ELSE IF Upper(request_type) = Upper(ReqInsert)
                     THEN "Fresh data load - table should be truncated before insert"
                     ELSE "Data should be appended to existing data",
                 validation_status |-> IF r.ok /\ known THEN "PASS" ELSE "ERROR",
                 error_message |->
                     IF ~r.ok THEN Msg("Error validating insert/append logic: ", r.msg)
                     ELSE IF ~known THEN Msg("Unknown request type", "")
                     ELSE NoneV],
        calls |-> <<Call("get_row_count", db_name, table_name, NoneV)>>]

insert_append_unit(group, st) ==
    LET db_name == SplitKey(group.table_key).db_name
        table_name == SplitKey(group.table_key).table_name
        request_type == group.table_metadata[1].request
        result == [validation_type |-> "insert_append_logic",
                   db_name |-> db_name,
                   table_name |-> table_name,
                   feed_name |-> group.table_metadata[1].feed,
                   request_type |-> request_type,
                   current_row_count |-> 0,
                   expected_behavior |-> "",
                   validation_status |-> "PASS",
                   error_message |-> NoneV]
        r == get_row_count(st, db_name, table_name)
        log == <<Call("get_row_count", db_name, table_name, NoneV)>>
    IN IF ~r.ok
       THEN [rec |-> [result EXCEPT
                        !.validation_status = "ERROR",
                        !.error_message =
                            Msg("Error validating insert/append logic: ", r.msg)],
             calls |-> log]
       ELSE LET got == [result EXCEPT !.current_row_count = r.val]
            IN [rec |->
                  IF Upper(request_type) = Upper(ReqInsert)
                  THEN [got EXCEPT !.expected_behavior =
                          "Fresh data load - table should be truncated before insert"]
                  ELSE IF Upper(request_type) = Upper(ReqAppend)
                  THEN [got EXCEPT !.expected_behavior =
                          "Data should be appended to existing data"]
                  ELSE [got EXCEPT
                          !.validation_status = "ERROR",
                          !.error_message = Msg("Unknown request type", "")],
                calls |-> log]

validate_insert_append_logic(md, selected, st) ==
    IF Foreign(md)
    THEN caught("insert_append_logic", "Error in insert/append logic validation: ", MissingAttr(selected), <<>>)
    ELSE LET groups == TableGroups(FilterFeeds(md, selected))
         IN Collect([g \in DOMAIN groups |-> insert_append_unit(groups[g], st)])

(***************************************************************************)
(* validate_count_checks.  expected is None or a dict keyed by table_key.  *)
(***************************************************************************)
\* Mutant: a table without rows is not failed for being empty.
count_unit_no_empty_check(group, expected, st) ==
    LET db_name == SplitKey(group.table_key).db_name
        table_name == SplitKey(group.table_key).table_name
        r == get_row_count(st, db_name, table_name)
        supplied == /\ expected # NoneV
                    /\ group.table_key \in DOMAIN Get(expected)
        mismatch == supplied /\ r.val # Get(expected)[group.table_key]
    IN [rec |-> [validation_type |-> "count_check",
                 db_name |-> db_name,
                 table_name |-> table_name,
                 feed_name |-> group.table_metadata[1].feed,
                 actual_count |-> IF r.ok THEN r.val ELSE 0,
                 expected_count |-> IF r.ok /\ supplied
                                    THEN Some(Get(expected)[group.table_key])
                                    ELSE NoneV,
                 validation_status |-> IF ~r.ok THEN "ERROR"
                                       ELSE IF mismatch THEN "FAIL" ELSE "PASS",
                 error_message |-> IF ~r.ok
                                   THEN Msg("Error validating count checks: ", r.msg)
                                   ELSE IF mismatch THEN Msg("Count mismatch", "")
                                   ELSE NoneV],
        calls |-> <<Call("get_row_count", db_name, table_name, NoneV)>>]

count_unit(group, expected, st) ==
    LET db_name == SplitKey(group.table_key).db_name
        table_name == SplitKey(group.table_key).table_name
        result == [validation_type |-> "count_check",
                   db_name |-> db_name,
                   table_name |-> table_name,
                   feed_name |-> group.table_metadata[1].feed,
                   actual_count |-> 0,
                   expected_count |-> NoneV,
                   validation_status |-> "PASS",
                   error_message |-> NoneV]
        r == get_row_count(st, db_name, table_name)
        log == <<Call("get_row_count", db_name, table_name, NoneV)>>
        supplied == /\ expected # NoneV
                    /\ DOMAIN Get(expected) # {}
                    /\ group.table_key \in DOMAIN Get(expected)
    IN IF ~r.ok
       THEN [rec |-> [result EXCEPT
                        !.validation_status = "ERROR",
                        !.error_message =
                            Msg("Error validating count checks: ", r.msg)],
             calls |-> log]
       ELSE LET got == [result EXCEPT
                          !.actual_count = r.val,
                          !.expected_count =
                              IF supplied THEN Some(Get(expected)[group.table_key])
                              ELSE NoneV]
                mismatch == supplied /\ r.val # Get(expected)[group.table_key]
            IN [rec |->
                  IF r.val = 0
                  THEN [got EXCEPT !.validation_status = "FAIL",
                                   !.error_message = Msg("Table is empty", "")]
                  ELSE IF mismatch
                  THEN [got EXCEPT !.validation_status = "FAIL",
                                   !.error_message = Msg("Count mismatch", "")]
                  ELSE got,
                calls |-> log]

\* Mutant: the store is probed before the groups are visited.
validate_count_checks_probing(md, expected, selected, st) ==
    LET groups == TableGroups(FilterFeeds(md, selected))
        out == Collect([g \in DOMAIN groups |-> count_unit(groups[g], expected, st)])
    IN [results |-> out.results,
        calls |-> <<Call("test_connection", DbPlain, TblPlain, NoneV)>> \o out.calls]

validate_count_checks(md, expected, selected, st) ==
    IF Foreign(md)
    THEN caught("count_check", "Error in count checks validation: ", MissingAttr(selected), <<>>)
    ELSE LET groups == TableGroups(FilterFeeds(md, selected))
         IN Collect([g \in DOMAIN groups |-> count_unit(groups[g], expected, st)])

(***************************************************************************)
(* validate_completeness_checks.  A percentage 100 * num / den is kept     *)
(* exact as the pair num, den; round(x, 2) yields hundredths of a percent. *)
(***************************************************************************)
CompletenessThreshold == 95

\* 100 * num / den in whole hundredths and what is left over, as
\* (10000 * num) \div den and (10000 * num) % den, taken in two steps of a
\* factor 100 so that no product leaves the 32-bit integers.
Hundredths(num, den) ==
    100 * ((100 * num) \div den) + (100 * ((100 * num) % den)) \div den

LeftOver(num, den) == (100 * ((100 * num) % den)) % den

\* Mutant: the third decimal is cut off.
Round2_truncated(num, den) == Hundredths(num, den)

\* round(100 * num / den, 2), in hundredths, ties to even.
Round2(num, den) ==
    IF 2 * LeftOver(num, den) > den THEN Hundredths(num, den) + 1
    ELSE IF 2 * LeftOver(num, den) < den THEN Hundredths(num, den)
    ELSE IF Hundredths(num, den) % 2 = 0 THEN Hundredths(num, den)
    ELSE Hundredths(num, den) + 1

\* Mutant: the rounded score is compared with the threshold.
BelowThreshold_rounded(num, den) == Round2(num, den) < 100 * CompletenessThreshold

\* overall_score < 95.0, for overall_score = 100 * num / den.
BelowThreshold(num, den) == 100 * num < CompletenessThreshold * den

RECURSIVE SumSeq(_)
SumSeq(xs) == IF xs = <<>> THEN 0 ELSE Head(xs) + SumSeq(Tail(xs))

\* checks[i] is the outcome of check_nullable_constraints for column i of the
\* group.  The index of the first that raised, or 0 when none did: the loop
\* over the columns stops there.
FirstRaising(checks) ==
    LET bad == {i \in DOMAIN checks : ~checks[i].ok}
    IN IF bad = {} THEN 0 ELSE CHOOSE i \in bad : \A j \in bad : i <= j

column_completeness_of(meta, total_rows, null_count) ==
    [column_name |-> meta.field_name,
     total_rows |-> total_rows,
     null_count |-> null_count,
     completeness_percentage |-> Round2(total_rows - null_count, total_rows),
     is_mandatory |-> IsY(meta.mandatory)]

\* sum(completeness_scores) / len(completeness_scores) is 100 * num / den with
\* num the non-null cells of the declared columns and den all their cells.
NonNullCells(total_rows, checks) ==
    SumSeq([i \in DOMAIN checks |-> total_rows - checks[i].val.null_count])

\* The status once every column's null count is known.
completeness_status(table_metadata, total_rows, checks) ==
    IF BelowThreshold(NonNullCells(total_rows, checks), total_rows * Len(checks))
    THEN "FAIL" ELSE "PASS"

completeness_log(db_name, table_name, table_metadata, made) ==
    <<Call("get_row_count", db_name, table_name, NoneV)>>
    \o [i \in 1..made |->
          Call("check_nullable_constraints", db_name, table_name,
               Some(table_metadata[i].field_name))]

\* The part of the try block after the empty-table test; stop is
\* FirstRaising(checks).
completeness_columns(result, table_metadata, total_rows, checks, stop) ==
    IF stop # 0
    THEN [rec |-> [result EXCEPT
                     !.total_rows = total_rows,
                     !.column_completeness =
                         [i \in 1..(stop - 1) |->
                            column_completeness_of(table_metadata[i], total_rows,
                                                   checks[i].val.null_count)],
                     !.validation_status = "ERROR",
                     !.error_message =
                         Msg("Error validating completeness checks: ", checks[stop].msg)],
          calls |-> completeness_log(result.db_name, result.table_name,
                                     table_metadata, stop)]
    ELSE [rec |-> [result EXCEPT
                     !.total_rows = total_rows,
                     !.column_completeness =
                         [i \in DOMAIN checks |->
                            column_completeness_of(table_metadata[i], total_rows,
                                                   checks[i].val.null_count)],
                     !.overall_completeness_score =
                         Round2(NonNullCells(total_rows, checks),
                                total_rows * Len(checks)),
                     !.validation_status =
                         completeness_status(table_metadata, total_rows, checks),
                     !.error_message =
                         IF completeness_status(table_metadata, total_rows, checks) = "FAIL"
                         THEN Msg("Low completeness score", "") ELSE NoneV],
          calls |-> completeness_log(result.db_name, result.table_name,
                                     table_metadata, Len(checks))]

\* Mutant: no test for the empty table; the first column's percentage
\* divides by zero and the handler of the group reports it.
completeness_rows_no_empty_test(result, table_metadata, st, rc) ==
    IF ~rc.ok
    THEN [rec |-> [result EXCEPT
                     !.validation_status = "ERROR",
                     !.error_message =
                         Msg("Error validating completeness checks: ", rc.msg)],
          calls |-> completeness_log(result.db_name, result.table_name,
                                     table_metadata, 0)]
    ELSE IF rc.val = 0
    THEN [rec |-> [result EXCEPT
                     !.validation_status = "ERROR",
                     !.error_message =
                         Msg("Error validating completeness checks: ",
                             "division by zero")],
          calls |-> completeness_log(result.db_name, result.table_name,
                                     table_metadata, 1)]
    ELSE completeness_columns(result, table_metadata, rc.val,
             [i \in DOMAIN table_metadata |->
                check_nullable_constraints(st, result.db_name, result.table_name,
                                           table_metadata[i].field_name)],
             FirstRaising([i \in DOMAIN table_metadata |->
                check_nullable_constraints(st, result.db_name, result.table_name,
                                           table_metadata[i].field_name)]))

\* The try block; rc is the outcome of get_row_count.
completeness_rows(result, table_metadata, st, rc) ==
    IF ~rc.ok
    THEN [rec |-> [result EXCEPT
                     !.validation_status = "ERROR",
                     !.error_message =
                         Msg("Error validating completeness checks: ", rc.msg)],
          calls |-> completeness_log(result.db_name, result.table_name,
                                     table_metadata, 0)]
    ELSE IF rc.val = 0
    THEN [rec |-> [result EXCEPT
                     !.validation_status = "FAIL",
                     !.error_message =
                         Msg("Table is empty - cannot check completeness", "")],
          calls |-> completeness_log(result.db_name, result.table_name,
                                     table_metadata, 0)]
    ELSE completeness_columns(result, table_metadata, rc.val,
             [i \in DOMAIN table_metadata |->
                check_nullable_constraints(st, result.db_name, result.table_name,
                                           table_metadata[i].field_name)],
             FirstRaising([i \in DOMAIN table_metadata |->
                check_nullable_constraints(st, result.db_name, result.table_name,
                                           table_metadata[i].field_name)]))

completeness_unit(group, st) ==
    completeness_rows(
        [validation_type |-> "completeness_check",
         db_name |-> SplitKey(group.table_key).db_name,
         table_name |-> SplitKey(group.table_key).table_name,
         feed_name |-> group.table_metadata[1].feed,
         total_rows |-> 0,
         column_completeness |-> <<>>,
         overall_completeness_score |-> 0,
         validation_status |-> "PASS",
         error_message |-> NoneV],
        group.table_metadata, st,
        get_row_count(st, SplitKey(group.table_key).db_name,
                      SplitKey(group.table_key).table_name))

\* Mutant: the first ERROR record ends the batch.
validate_completeness_checks_abort(md, selected, st) ==
    LET groups == TableGroups(FilterFeeds(md, selected))
        outs == [g \in DOMAIN groups |-> completeness_unit(groups[g], st)]
        errs == {g \in DOMAIN outs : outs[g].rec.validation_status = "ERROR"}
        last == IF errs = {} THEN Len(outs)
                ELSE CHOOSE g \in errs : \A h \in errs : g <= h
    IN Collect(SubSeq(outs, 1, last))

validate_completeness_checks(md, selected, st) ==
    IF Foreign(md)
    THEN caught("completeness_check", "Error in completeness checks validation: ", MissingAttr(selected), <<>>)
    ELSE LET groups == TableGroups(FilterFeeds(md, selected))
         IN Collect([g \in DOMAIN groups |-> completeness_unit(groups[g], st)])

(***************************************************************************)
(* Inputs.  A FeedMetadata record carries the fields the validators read.  *)
(***************************************************************************)
Meta(feed, field_name, db_name, db_table, data_type, nullable, request, enumeration, range_bottom, range_top, mandatory, unique) ==
    [feed |-> feed, field_name |-> field_name, db_name |-> db_name,
     db_table |-> db_table, data_type |-> data_type, nullable |-> nullable,
     request |-> request, enumeration |-> enumeration,
     range_bottom |-> range_bottom, range_top |-> range_top,
     mandatory |-> mandatory, unique |-> unique]

\* A StagingMetadata record: the fields it shares with FeedMetadata.
Staging(nullable, request, enumeration, range_bottom, range_top, mandatory, unique) ==
    [nullable |-> nullable, request |-> request, enumeration |-> enumeration,
     range_bottom |-> range_bottom, range_top |-> range_top,
     mandatory |-> mandatory, unique |-> unique]

Enum(name, value) == [enumeration_name |-> name, enum_values |-> value]

SeqsUpTo(S, n) == UNION {[1..k -> S] : k \in 0..n}

T1 == <<"server1", TblPlain>>

T2 == <<"server1", TblDotted>>

Col(name, type, nullable) == [name |-> name, type |-> type, nullable |-> nullable]

Facts(bad, nulls, distinct, below, above, vals) ==
    [bad |-> bad, nulls |-> nulls, distinct |-> distinct, below |-> below,
     above |-> above, vals |-> vals]

Table(status, rows, schema, q) ==
    [status |-> status, rows |-> rows, schema |-> schema, q |-> q]

\* A clean column of a table of n rows: no nulls, all values distinct and "a".
Clean(n) == Facts(FALSE, 0, n, 0, 0, [v \in {"a", "b"} |-> IF v = "a" THEN n ELSE 0])

Filters == {NoneV, Some(<<>>), Some(<<"f3", "f2">>)}

(***************************************************************************)
(* The validator calls.  Each is the whole call: filter, loop over every   *)
(* unit, return.  The handler around the whole call catches what is raised *)
(* outside the per-unit try blocks: with FeedMetadata records nothing      *)
(* there raises; a record of another class raises at the first read of an  *)
(* attribute it does not have.                                             *)
(***************************************************************************)
\* The record of a recorded run: its first call stays; of the later calls
\* only whether one of another name was among them.
Remember(name, returned) ==
    earlier' = IF ~earlier.armed THEN earlier
               ELSE IF earlier.call = NoneV
               THEN [armed |-> TRUE, others |-> FALSE,
                     call |-> Some([validator |-> name, results |-> returned])]
               ELSE [earlier EXCEPT
                       !.others = @ \/ name # Get(earlier.call).validator]

\* Mutant: the validator object keeps its list from call to call ("results"
\* as an attribute instead of the local "results = []").
Returned_accumulating(name, out) ==
    /\ run.name = "idle"
    /\ validator' = name
    /\ results' = results \o out.results
    /\ calls' = out.calls
    /\ Remember(name, results \o out.results)
    /\ UNCHANGED <<metadata, enumeration_metadata, expected_counts,
                   selected_feeds, store, workbook, run>>

\* Mutant: the filter is applied to the caller's list in place.
Returned_filtering_in_place(name, out) ==
    /\ run.name = "idle"
    /\ validator' = name
    /\ results' = out.results
    /\ calls' = out.calls
    /\ Remember(name, out.results)
    /\ metadata' = FilterFeeds(BeforeForeign(metadata), selected_feeds)
    /\ UNCHANGED <<enumeration_metadata, expected_counts, selected_feeds, store, workbook, run>>

\* "results = []" ... "return results": the list is local to the call, and
\* "metadata = [...]" rebinds the parameter, not the caller's list.
Returned(name, out) ==
    /\ run.name = "idle"
    /\ validator' = name
    /\ results' = out.results
    /\ calls' = out.calls
    /\ Remember(name, out.results)
    /\ UNCHANGED <<metadata, enumeration_metadata, expected_counts,
                   selected_feeds, store, workbook, run>>

CallDataTypes ==
    Returned("data_type", validate_data_types(metadata, selected_feeds, store))

CallNullable ==
    Returned("nullable_constraint",
             validate_nullable_constraints(metadata, selected_feeds, store))

CallUnique ==
    Returned("unique_constraint",
             validate_unique_constraints(metadata, selected_feeds, store))

CallRange ==
    Returned("range_constraint",
             validate_range_constraints(metadata, selected_feeds, store))

CallEnumeration ==
    Returned("enumeration_constraint",
             validate_enumeration_constraints(metadata, enumeration_metadata,
                                              selected_feeds, store))

CallInsertAppend ==
    Returned("insert_append_logic",
             validate_insert_append_logic(metadata, selected_feeds, store))

CallCount ==
    Returned("count_check",
             validate_count_checks(metadata, expected_counts, selected_feeds, store))

CallCompleteness ==
    Returned("completeness_check",
             validate_completeness_checks(metadata, selected_feeds, store))

\* A caller's own call of the connector, as the feed tests make after a job.
AccessOps ==
    {"check_table_exists", "get_table_schema", "get_row_count",
     "check_nullable_constraints", "check_unique_constraints",
     "check_range_constraints", "check_enumeration_constraints"}

connector_call(op, st, db_name, table_name, column_name) ==
    CASE op = "test_connection" -> test_connection(st, db_name)
      [] op = "check_table_exists" -> check_table_exists(st, db_name, table_name)
      [] op = "get_table_schema" -> get_table_schema(st, db_name, table_name)
      [] op = "get_row_count" -> get_row_count(st, db_name, table_name)
      [] op = "check_nullable_constraints" ->
            check_nullable_constraints(st, db_name, table_name, column_name)
      [] op = "check_unique_constraints" ->
            check_unique_constraints(st, db_name, table_name, column_name)
      [] op = "check_range_constraints" ->
            check_range_constraints(st, db_name, table_name, column_name,
                                    Some("0"), NoneV)
      [] op = "check_enumeration_constraints" ->
            check_enumeration_constraints(st, db_name, table_name, column_name,
                                          <<"a">>)

\* Every call on table t; check_table_exists also on a table of another name.
\* The probe is made on a name of each engine.
ConnectorCalls ==
    {<<op, DbPlain, TblPlain>> : op \in AccessOps}
    \cup {<<"check_table_exists", DbPlain, TblDotted>>,
          <<"test_connection", DbPlain, TblPlain>>,
          <<"test_connection", DbServer2, TblPlain>>}

CallConnector ==
    \E c \in ConnectorCalls :
        /\ run.name = "idle"
        /\ validator' = c[1]
        /\ results' = <<connector_call(c[1], store, c[2], c[3], "c1")>>
        /\ calls' = <<Call(c[1], c[2], c[3], Some("c1"))>>
        /\ Remember(c[1], <<connector_call(c[1], store, c[2], c[3], "c1")>>)
        /\ UNCHANGED <<metadata, enumeration_metadata, expected_counts,
                       selected_feeds, store, workbook, run>>

(***************************************************************************)
(* Metadata ingestion (utils/excel_reader.py).  A sheet is a DataFrame:    *)
(* its header names, as "df.columns.str.strip()" leaves them, and its      *)
(* rows.  A cell is blank (NaN) or holds a text.                           *)
(***************************************************************************)
Blank == NoneV

Text(s) == Some(s)

Sheet(columns, rows) == [columns |-> columns, rows |-> rows]

\* pd.isna(x): NaN, and the None that row.get returns for a missing header.
isna(cell) == cell = Blank

\* row.get(name, default) on a row of the sheet df.
row_get(df, row, name, default) ==
    IF name \in df.columns THEN row[name] ELSE default

\* str(x) of a cell: the text itself, 'nan' for NaN.
str(cell) == IF cell = Blank THEN <<"n", "a", "n">> ELSE Get(cell)

\* The characters of the class [,\|;].
IsDelimiter(c) == c \in {",", "|", ";"}

\* Characters str.strip() removes.
IsSpace(c) == c \in {" ", "\t", "\n"}

FirstDelimiter(s) ==
    CHOOSE i \in DOMAIN s : IsDelimiter(s[i]) /\ \A j \in 1..(i - 1) : ~IsDelimiter(s[j])

\* The first index after i that holds no delimiter, Len(s) + 1 if none.
AfterDelimiters(s, i) ==
    CHOOSE j \in (i + 1)..(Len(s) + 1) :
        /\ \A k \in i..(j - 1) : IsDelimiter(s[k])
        /\ j <= Len(s) => ~IsDelimiter(s[j])

\* re.split(r'[,\|;]+', s)
RECURSIVE re_split(_)
re_split(s) ==
    IF \A i \in DOMAIN s : ~IsDelimiter(s[i])
    THEN <<s>>
    ELSE <<SubSeq(s, 1, FirstDelimiter(s) - 1)>>
         \o re_split(SubSeq(s, AfterDelimiters(s, FirstDelimiter(s)), Len(s)))

RECURSIVE lstrip(_)
lstrip(s) == IF s # <<>> /\ IsSpace(Head(s)) THEN lstrip(Tail(s)) ELSE s

RECURSIVE rstrip(_)
rstrip(s) ==
    IF s # <<>> /\ IsSpace(s[Len(s)]) THEN rstrip(SubSeq(s, 1, Len(s) - 1)) ELSE s

\* Mutant: only the leading whitespace is removed.
strip_leading(s) == lstrip(s)

\* str.strip()
strip(s) == rstrip(lstrip(s))

Stripped(parts) == [i \in DOMAIN parts |-> strip(parts[i])]

\* feed_list = [f.strip() for f in re.split(r'[,\|;]+', feed_raw) if f.strip()]
feed_list(feed_raw) == SelectSeq(Stripped(re_split(feed_raw)), LAMBDA f : f # <<>>)

\* str(row.get(name, '')) if pd.notna(row.get(name)) else None
optional(df, row, name) ==
    IF isna(row_get(df, row, name, Blank))
    THEN NoneV
    ELSE Some(str(row_get(df, row, name, Text(<<>>))))

\* FeedMetadata(...) of one row.
FeedMetadata(df, row) ==
    [modules |-> str(row_get(df, row, "Modules", Text(<<>>))),
     feed |-> str(row_get(df, row, "Feed", Text(<<>>))),
     feed_list |-> feed_list(str(row_get(df, row, "Feed", Text(<<>>)))),
     field_name |-> str(row_get(df, row, "FieldName", Text(<<>>))),
     db_name |-> str(row_get(df, row, "DBName", Text(<<>>))),
     db_table |-> str(row_get(df, row, "DB Table", Text(<<>>))),
     data_type |-> str(row_get(df, row, "DataType", Text(<<>>))),
     nullable |-> str(row_get(df, row, "Nullable", Text(FlagN))),
     request |-> str(row_get(df, row, "Request", Text(ReqInsert))),
     default |-> optional(df, row, "Default"),
     enumeration |-> optional(df, row, "Enumeration"),
     range_bottom |-> optional(df, row, "RangeBottom"),
     range_top |-> optional(df, row, "RangeTop"),
     mandatory |-> str(row_get(df, row, "Mandatory", Text(FlagN))),
     unique |-> str(row_get(df, row, "Unique", Text(FlagN)))]

\* "if pd.isna(row.get('Modules')) or pd.isna(row.get('Feed')): continue"
FeedRowSkipped(df, row) ==
    isna(row_get(df, row, "Modules", Blank)) \/ isna(row_get(df, row, "Feed", Blank))

\* "if pd.isna(row.get('EnumerationName')): continue"
EnumRowSkipped(df, row) == isna(row_get(df, row, "EnumerationName", Blank))

\* EnumerationMetadata(...) of one row.
EnumerationMetadata(df, row) ==
    [enumeration_name |-> str(row_get(df, row, "EnumerationName", Text(<<>>))),
     enum_values |-> str(row_get(df, row, "EnumValues", Text(<<>>)))]

\* The rows before the first one that a loop which stops there would reach.
RECURSIVE UntilSkipped(_, _)
UntilSkipped(df, rows) ==
    IF rows = <<>> \/ FeedRowSkipped(df, Head(rows))
    THEN <<>>
    ELSE <<Head(rows)>> \o UntilSkipped(df, Tail(rows))

\* Mutant: the loop ends at the first row that lacks an identifying field.
FeedRowsKept_until_skipped(df) == UntilSkipped(df, df.rows)

\* The rows the loop of _load_feed_metadata builds a record of.
FeedRowsKept(df) == SelectSeq(df.rows, LAMBDA row : ~FeedRowSkipped(df, row))

EnumRowsKept(df) == SelectSeq(df.rows, LAMBDA row : ~EnumRowSkipped(df, row))

\* MetadataReader(path).load_all_metadata()['feed_metadata'], the sheet
\* Feed_to_staging being sheet (None where the workbook has none).
load_feed_metadata(sheet) ==
    IF sheet = NoneV
    THEN <<>>
    ELSE [i \in DOMAIN FeedRowsKept(Get(sheet)) |->
            FeedMetadata(Get(sheet), FeedRowsKept(Get(sheet))[i])]

\* MetadataReader(path).load_all_metadata()['enumeration_metadata']
load_enumeration_metadata(sheet) ==
    IF sheet = NoneV
    THEN <<>>
    ELSE [i \in DOMAIN EnumRowsKept(Get(sheet)) |->
            EnumerationMetadata(Get(sheet), EnumRowsKept(Get(sheet))[i])]

Loaded(name, records) ==
    /\ run.name = "idle"
    /\ validator' = name
    /\ results' = records
    /\ calls' = <<>>
    /\ Remember(name, records)
    /\ UNCHANGED <<metadata, enumeration_metadata, expected_counts,
                   selected_feeds, store, workbook, run>>

LoadFeedMetadata ==
    Loaded("load_feed_metadata", load_feed_metadata(workbook.Feed_to_staging))

LoadEnumerationMetadata ==
    Loaded("load_enumeration_metadata",
           load_enumeration_metadata(workbook.Enumeration))

(***************************************************************************)
(* Workbooks.  The rows of a sheet hold a cell under every header name of  *)
(* the layout; a sheet that lacks a header is read without that column.    *)
(***************************************************************************)
FlagColumns == {"Nullable", "Mandatory", "Unique"}

OptionalColumns == {"Default", "Enumeration", "RangeBottom", "RangeTop"}

FeedColumns ==
    {"Modules", "Feed", "FieldName", "DBName", "DB Table", "DataType", "Request"}
    \cup FlagColumns \cup OptionalColumns

EnumColumns == {"EnumerationName", "EnumValues"}

FeedRow(modules, feed, flags, optionals) ==
    [c \in FeedColumns |->
       CASE c = "Modules" -> modules
         [] c = "Feed" -> feed
         [] c \in FlagColumns -> flags
         [] c \in OptionalColumns -> optionals
         [] OTHER -> Text(<<"x">>)]

EnumRow(name, values) ==
    [c \in EnumColumns |-> IF c = "EnumerationName" THEN name ELSE values]

FeedRowPool ==
    {FeedRow(Text(<<"m">>), Text(<<"f", "1">>), Text(FlagY), Text(<<"5">>)),
     FeedRow(Text(<<"m">>), Text(<<"f", "2">>), Blank, Text(<<"5">>)),
     FeedRow(Text(<<"m">>), Text(<<"f", "3">>), Text(FlagY), Blank),
     FeedRow(Blank, Text(<<"f", "4">>), Text(FlagY), Text(<<"5">>)),
     FeedRow(Text(<<"m">>), Blank, Text(FlagY), Text(<<"5">>))}

FeedColumnSets ==
    {FeedColumns, FeedColumns \ FlagColumns, FeedColumns \ OptionalColumns,
     FeedColumns \ {"Modules"}}

EnumRowPool ==
    {EnumRow(Text(<<"E", "1">>), Text(<<"a">>)),
     EnumRow(Text(<<"E", "2">>), Blank),
     EnumRow(Blank, Text(<<"b">>))}

PlainFeedSheet ==
    Sheet(FeedColumns,
          <<FeedRow(Text(<<"m">>), Text(<<"f", "1">>), Text(FlagY), Text(<<"5">>))>>)

PlainEnumSheet == Sheet(EnumColumns, <<EnumRow(Text(<<"E", "1">>), Text(<<"a">>))>>)

Workbook(feed_sheet, enum_sheet) ==
    [Feed_to_staging |-> feed_sheet, Enumeration |-> enum_sheet]

PlainWorkbook == Workbook(Some(PlainFeedSheet), Some(PlainEnumSheet))

\* The characters of the raw feed strings.
FeedChars == {"a", "b", " ", ",", "|", ";"}

\* Workbooks whose feed sheet varies in headers and rows.
FeedWorkbooks ==
    {Workbook(Some(Sheet(cs, rows)), Some(PlainEnumSheet)) :
       cs \in FeedColumnSets, rows \in SeqsUpTo(FeedRowPool, MaxRows)}

\* Workbooks whose enumeration sheet varies in headers and rows.
EnumWorkbooks ==
    {Workbook(Some(PlainFeedSheet), Some(Sheet(cs, rows))) :
       cs \in {EnumColumns, {"EnumValues"}},
       rows \in SeqsUpTo(EnumRowPool, MaxRows)}

\* Workbooks of one feed row, of every raw feed string of the bound.
TokenWorkbooks ==
    {Workbook(Some(Sheet(FeedColumns,
                         <<FeedRow(Text(<<"m">>), Text(raw), Text(FlagY), Blank)>>)),
              Some(PlainEnumSheet)) :
       raw \in SeqsUpTo(FeedChars, MaxFeedLen) \ {<<>>}}

\* Workbooks that lack a sheet.
SheetlessWorkbooks ==
    {Workbook(NoneV, Some(PlainEnumSheet)), Workbook(Some(PlainFeedSheet), NoneV)}

Validators ==
    {"data_type", "nullable_constraint", "unique_constraint", "range_constraint",
     "enumeration_constraint", "insert_append_logic", "count_check",
     "completeness_check"}

TableLevel == {"data_type", "insert_append_logic", "count_check", "completeness_check"}

(***************************************************************************)
(* A validator call step by step: the entry up to the loop (results = [],  *)
(* the feed filter, the grouping), one unit per iteration of the loop, and *)
(* the return.  While a call runs nothing else does.                       *)
(***************************************************************************)
Idle == [name |-> "idle", text |-> "", at |-> 0, raised |-> FALSE, outs |-> <<>>]

\* The outcomes of the iterations of a call, in the order of its units: the
\* record and the calls of the unit's body or, for a record that has no
\* db_name, that the read of it raises.  Nothing else runs while the call
\* does and a validator writes nothing, so they are settled when the call
\* is entered.  A call that raises before its loop has none.
nullable_outcomes(md, selected, st) ==
    IF Filtering(selected) /\ Foreign(md)
    THEN <<>>
    ELSE LET units == FilterFeeds(md, selected)
         IN [i \in DOMAIN units |->
                 IF IsFeed(units[i])
                 THEN nullable_unit(units[i], st)
                 ELSE [raises |-> TRUE]]

unique_outcomes(md, selected, st) ==
    IF Filtering(selected) /\ Foreign(md)
    THEN <<>>
    ELSE LET units == UniqueScope(FilterFeeds(md, selected))
         IN [i \in DOMAIN units |->
                 IF IsFeed(units[i])
                 THEN unique_unit(units[i], st)
                 ELSE [raises |-> TRUE]]

range_outcomes(md, selected, st) ==
    IF Filtering(selected) /\ Foreign(md)
    THEN <<>>
    ELSE LET units == RangeScope(FilterFeeds(md, selected))
         IN [i \in DOMAIN units |->
                 IF IsFeed(units[i])
                 THEN range_unit(units[i], st)
                 ELSE [raises |-> TRUE]]

enumeration_outcomes(md, enum_md, selected, st) ==
    IF Filtering(selected) /\ Foreign(md)
    THEN <<>>
    ELSE LET units == EnumScope(FilterFeeds(md, selected))
         IN [i \in DOMAIN units |->
                 IF IsFeed(units[i])
                 THEN enumeration_unit(units[i], enum_md, st)
                 ELSE [raises |-> TRUE]]

data_type_outcomes(md, selected, st) ==
    IF Foreign(md)
    THEN <<>>
    ELSE LET units == TableGroups(FilterFeeds(md, selected))
         IN [g \in DOMAIN units |->
                 data_type_unit(units[g], st)]

insert_append_outcomes(md, selected, st) ==
    IF Foreign(md)
    THEN <<>>
    ELSE LET units == TableGroups(FilterFeeds(md, selected))
         IN [g \in DOMAIN units |->
                 insert_append_unit(units[g], st)]

count_outcomes(md, expected, selected, st) ==
    IF Foreign(md)
    THEN <<>>
    ELSE LET units == TableGroups(FilterFeeds(md, selected))
         IN [g \in DOMAIN units |->
                 count_unit(units[g], expected, st)]

completeness_outcomes(md, selected, st) ==
    IF Foreign(md)
    THEN <<>>
    ELSE LET units == TableGroups(FilterFeeds(md, selected))
         IN [g \in DOMAIN units |->
                 completeness_unit(units[g], st)]

\* The entry of a call up to its loop: "results = []", the feed filter and
\* the grouping, which raise on a record that lacks the attribute read.
Entered(name, text, raised, outs) ==
    /\ run.name = "idle"
    /\ run' = [name |-> name, text |-> text, at |-> 0, raised |-> raised,
               outs |-> outs]
    /\ validator' = "running"
    /\ results' = IF raised
                  THEN caught(name, text, MissingAttr(selected_feeds), <<>>).results
                  ELSE <<>>
    /\ calls' = <<>>
    /\ UNCHANGED <<metadata, enumeration_metadata, expected_counts,
                   selected_feeds, store, workbook, earlier>>

Begin ==
    \/ Entered("data_type", "Error in data type validation: ", Foreign(metadata),
               data_type_outcomes(metadata, selected_feeds, store))
    \/ Entered("nullable_constraint", "Error in nullable constraints validation: ",
               Filtering(selected_feeds) /\ Foreign(metadata),
               nullable_outcomes(metadata, selected_feeds, store))
    \/ Entered("unique_constraint", "Error in unique constraints validation: ",
               Filtering(selected_feeds) /\ Foreign(metadata),
               unique_outcomes(metadata, selected_feeds, store))
    \/ Entered("range_constraint", "Error in range constraints validation: ",
               Filtering(selected_feeds) /\ Foreign(metadata),
               range_outcomes(metadata, selected_feeds, store))
    \/ Entered("enumeration_constraint", "Error in enumeration constraints validation: ",
               Filtering(selected_feeds) /\ Foreign(metadata),
               enumeration_outcomes(metadata, enumeration_metadata, selected_feeds, store))
    \/ Entered("insert_append_logic", "Error in insert/append logic validation: ",
               Foreign(metadata),
               insert_append_outcomes(metadata, selected_feeds, store))
    \/ Entered("count_check", "Error in count checks validation: ", Foreign(metadata),
               count_outcomes(metadata, expected_counts, selected_feeds, store))
    \/ Entered("completeness_check", "Error in completeness checks validation: ",
               Foreign(metadata),
               completeness_outcomes(metadata, selected_feeds, store))

\* The iteration whose outcome is out.
Iterate(out) ==
    IF "raises" \in DOMAIN out
    THEN /\ results' = caught(run.name, run.text, "no attribute 'db_name'", calls).results
         /\ calls' = calls
         /\ run' = [run EXCEPT !.raised = TRUE]
    ELSE /\ results' = Append(results, out.rec)
         /\ calls' = calls \o out.calls
         /\ run' = [run EXCEPT !.at = @ + 1]

\* Mutant: a unit whose record is an ERROR is tried again and again; the
\* loop never gets past it.
Step_retrying ==
    /\ run.name \in Validators
    /\ ~run.raised
    /\ run.at < Len(run.outs)
    /\ IF "raises" \in DOMAIN run.outs[run.at + 1] THEN TRUE
       ELSE run.outs[run.at + 1].rec.validation_status # "ERROR"
    /\ Iterate(run.outs[run.at + 1])
    /\ UNCHANGED <<validator, metadata, enumeration_metadata, expected_counts,
                   selected_feeds, store, workbook, earlier>>

Step ==
    /\ run.name \in Validators
    /\ ~run.raised
    /\ run.at < Len(run.outs)
    /\ Iterate(run.outs[run.at + 1])
    /\ UNCHANGED <<validator, metadata, enumeration_metadata, expected_counts,
                   selected_feeds, store, workbook, earlier>>

\* "return results", or the return of the handler around the call.
Finish ==
    /\ run.name \in Validators
    /\ IF run.raised THEN TRUE ELSE run.at = Len(run.outs)
    /\ validator' = run.name
    /\ run' = Idle
    /\ Remember(run.name, results)
    /\ UNCHANGED <<results, calls, metadata, enumeration_metadata,
                   expected_counts, selected_feeds, store, workbook>>

Next ==
    \/ CallDataTypes
    \/ CallNullable
    \/ CallUnique
    \/ CallRange
    \/ CallEnumeration
    \/ CallInsertAppend
    \/ CallCount
    \/ CallCompleteness
    \/ CallConnector
    \/ LoadFeedMetadata
    \/ LoadEnumerationMetadata
    \/ Begin
    \/ Step
    \/ Finish

InitWith(M, E, X, F, S) ==
    /\ metadata \in M
    /\ enumeration_metadata \in E
    /\ expected_counts \in X
    /\ selected_feeds \in F
    /\ store \in S
    /\ validator = "none"
    /\ results = <<>>
    /\ calls = <<>>
    /\ earlier = [armed |-> FALSE, others |-> FALSE, call |-> NoneV]
    /\ workbook = PlainWorkbook
    /\ run = Idle

(***************************************************************************)
(* Spec: tables that are reachable or not, columns whose queries raise or  *)
(* not, metadata over plain and dotted store and table names.              *)
(***************************************************************************)
GeneralPool ==
    {Meta(IF f = "c1" THEN "f1" ELSE "f2", f, n[1], n[2], TypeInteger, FlagN,
          ReqInsert, Some("E1"), Some("0"), NoneV, FlagY, FlagY) :
       f \in {"c1", "c2"},
       n \in {<<DbPlain, TblPlain>>, <<DbDotted, TblPlain>>, <<DbPlain, TblDotted>>}}

GeneralTable(status, c2bad) ==
    Table(status, SmallRows,
          <<Col("c1", TypeInteger, FALSE), Col("c2", TypeInteger, FALSE)>>,
          [c \in {"c1", "c2"} |->
             [Clean(SmallRows) EXCEPT !.bad = (c = "c2" /\ c2bad)]])

GeneralStores ==
    {[t \in {T1, T2} |-> GeneralTable(IF t = T1 THEN s1 ELSE s2, b)] :
       s1 \in {"up", "conn"}, s2 \in {"up", "conn"}, b \in BOOLEAN}

Init ==
    InitWith(SeqsUpTo(GeneralPool, MaxMeta), {<<Enum("E1", "a")>>}, {NoneV},
             Filters, GeneralStores)

Spec == Init /\ [][Next]_vars

(***************************************************************************)
(* SpecEnum: enumeration references that resolve, do not resolve, are      *)
(* empty or absent, against a column holding allowed and other values.     *)
(***************************************************************************)
EnumPool ==
    {Meta(IF f = "c1" THEN "f1" ELSE "f2", f, DbPlain, TblPlain, TypeInteger, FlagN,
          ReqInsert, e, NoneV, NoneV, FlagN, FlagN) :
       f \in {"c1", "c2"}, e \in {NoneV, Some(""), Some("E1"), Some("E2")}}

EnumCatalogs ==
    {<<>>, <<Enum("E1", "a")>>, <<Enum("E1", "a"), Enum("E1", "b")>>,
     <<Enum("E1", "a"), Enum("e1", "b")>>}

EnumTable(status, others) ==
    Table(status, SmallRows,
          <<Col("c1", TypeVarchar, FALSE), Col("c2", TypeVarchar, FALSE)>>,
          [c \in {"c1", "c2"} |->
             [Clean(SmallRows) EXCEPT
                !.vals = [v \in {"a", "b"} |->
                            IF v = "a" THEN SmallRows - others ELSE others]]])

EnumStores ==
    {[t \in {T1} |-> EnumTable(st[1], st[2])] :
       st \in {<<"up", 0>>, <<"up", 1>>, <<"conn", 0>>}}

InitEnum ==
    InitWith(SeqsUpTo(EnumPool, MaxMeta), EnumCatalogs, {NoneV}, {NoneV},
             EnumStores)

SpecEnum == InitEnum /\ [][Next]_vars

(***************************************************************************)
(* SpecNullable: declared flags in both letter cases against a column that *)
(* is absent from the schema, nullable or not, with and without nulls.     *)
(***************************************************************************)
NullablePool ==
    {Meta("f1", "c1", DbPlain, TblPlain, TypeInteger, n, ReqInsert, NoneV, NoneV,
          NoneV, m, FlagN) :
       n \in {FlagY, FlagN, FlagLowerY}, m \in {FlagY, FlagN, FlagLowerY}}

NullableTable(status, schema, nulls) ==
    Table(status, SmallRows, schema,
          [c \in {"c1"} |-> [Clean(SmallRows) EXCEPT !.nulls = nulls]])

NullableStores ==
    {[t \in {T1} |-> NullableTable("conn", <<>>, 0)]}
    \cup {[t \in {T1} |-> NullableTable("up", sc, n)] :
            sc \in {<<>>, <<Col("c1", TypeInteger, TRUE)>>,
                    <<Col("c1", TypeInteger, FALSE)>>},
            n \in {0, 1}}

InitNullable ==
    InitWith(SeqsUpTo(NullablePool, MaxMeta), {<<>>}, {NoneV}, {NoneV},
             NullableStores)

SpecNullable == InitNullable /\ [][Next]_vars

(***************************************************************************)
(* SpecUnique: unique flags in both letter cases against tables that are   *)
(* empty or not, with and without repeated values.                         *)
(***************************************************************************)
UniquePool ==
    {Meta("f1", f, DbPlain, TblPlain, TypeInteger, FlagN, ReqInsert, NoneV, NoneV,
          NoneV, FlagN, u) :
       f \in {"c1", "c2"}, u \in {FlagY, FlagN, FlagLowerY}}

\* COUNT(DISTINCT c) of a table of n rows is at most n.
DistinctChoices(rows) == {0, rows - 1, rows} \cap 0..rows

UniqueTable(status, rows, distinct, c2bad) ==
    Table(status, rows,
          <<Col("c1", TypeInteger, FALSE), Col("c2", TypeInteger, FALSE)>>,
          [c \in {"c1", "c2"} |->
             IF c = "c1" THEN [Clean(rows) EXCEPT !.distinct = distinct]
             ELSE [Clean(rows) EXCEPT !.bad = c2bad]])

UniqueStores ==
    {[t \in {T1} |-> UniqueTable("conn", SmallRows, SmallRows, FALSE)]}
    \cup {[t \in {T1} |-> UniqueTable("up", sz[1], sz[2], b)] :
            sz \in {z \in {0, 1, SmallRows} \X (0..SmallRows) :
                       z[2] \in DistinctChoices(z[1])},
            b \in BOOLEAN}

InitUnique ==
    InitWith(SeqsUpTo(UniquePool, MaxMeta), {<<>>}, {NoneV}, {NoneV}, UniqueStores)

SpecUnique == InitUnique /\ [][Next]_vars

(***************************************************************************)
(* SpecCompleteness: tables that are empty, small or large, with null      *)
(* counts on both sides of the threshold and next to it.                   *)
(***************************************************************************)
CompletenessPool ==
    {Meta("f1", f, DbPlain, TblPlain, TypeInteger, FlagY, ReqInsert, NoneV, NoneV,
          NoneV, m, FlagN) :
       f \in {"c1", "c2"}, m \in {FlagY, FlagN}}

NullChoices(rows) == {0, 1, rows \div 20, (rows \div 20) + 1, rows} \cap 0..rows

CompletenessTable(status, rows, nulls1, nulls2, c2bad) ==
    Table(status, rows,
          <<Col("c1", TypeInteger, TRUE), Col("c2", TypeInteger, TRUE)>>,
          [c \in {"c1", "c2"} |->
             IF c = "c1" THEN [Clean(rows) EXCEPT !.nulls = nulls1]
             ELSE [Clean(rows) EXCEPT !.nulls = nulls2, !.bad = c2bad]])

CompletenessStores ==
    {[t \in {T1} |-> CompletenessTable("conn", SmallRows, 0, 0, FALSE)],
     [t \in {T1} |-> CompletenessTable("up", SmallRows, 0, 0, TRUE)]}
    \cup UNION {{[t \in {T1} |-> CompletenessTable("up", rows, n1, n2, FALSE)] :
                   n1 \in NullChoices(rows), n2 \in NullChoices(rows)} :
                rows \in {0, 1, SmallRows, BigRows}}

InitCompleteness ==
    InitWith(SeqsUpTo(CompletenessPool, MaxMeta), {<<>>}, {NoneV}, {NoneV},
             CompletenessStores)

SpecCompleteness == InitCompleteness /\ [][Next]_vars

(***************************************************************************)
(* SpecDataTypes: declared columns that are present with a compatible or   *)
(* an incompatible type, or missing, and a column nobody declared.         *)
(***************************************************************************)
DataTypePool ==
    {Meta("f1", f, DbPlain, TblPlain, ty, FlagN, ReqInsert, NoneV, NoneV, NoneV,
          FlagN, FlagN) :
       f \in {"c1", "c2"}, ty \in {TypeInteger, TypeVarchar}}

\* A table that can be described has at least one column.
DataTypeSchemas ==
    {s1 \o s2 \o s3 :
       s1 \in {<<>>, <<Col("c1", TypeInt, FALSE)>>, <<Col("c1", TypeVarchar, FALSE)>>},
       s2 \in {<<>>, <<Col("c2", TypeInteger, FALSE)>>},
       s3 \in {<<>>, <<Col("c3", TypeDate, FALSE)>>}} \ {<<>>}

DataTypeTable(status, schema) ==
    Table(status, SmallRows, schema, [c \in {"c1", "c2"} |-> Clean(SmallRows)])

DataTypeStores ==
    {[t \in {T1} |-> DataTypeTable(s, <<>>)] : s \in {"conn", "intro"}}
    \cup {[t \in {T1} |-> DataTypeTable("up", sc)] : sc \in DataTypeSchemas}

InitDataTypes ==
    InitWith(SeqsUpTo(DataTypePool, MaxMeta), {<<>>}, {NoneV}, {NoneV},
             DataTypeStores)

SpecDataTypes == InitDataTypes /\ [][Next]_vars

(***************************************************************************)
(* SpecRange: bounds that are present, empty or absent, against a column   *)
(* with and without values outside them.                                   *)
(***************************************************************************)
RangePool ==
    {Meta("f1", "c1", DbPlain, TblPlain, TypeInteger, FlagN, ReqInsert, NoneV, lo, hi,
          FlagN, FlagN) :
       lo \in {NoneV, Some(""), Some("0")}, hi \in {NoneV, Some(""), Some("9")}}

RangeTable(status, below, above, bad) ==
    Table(status, SmallRows, <<Col("c1", TypeInteger, FALSE)>>,
          [c \in {"c1"} |->
             [Clean(SmallRows) EXCEPT !.below = below, !.above = above, !.bad = bad]])

RangeStores ==
    {[t \in {T1} |-> RangeTable("conn", 0, 0, FALSE)],
     [t \in {T1} |-> RangeTable("up", 0, 0, TRUE)]}
    \cup {[t \in {T1} |-> RangeTable("up", b, a, FALSE)] : b \in {0, 3}, a \in {0, 2}}

InitRange ==
    InitWith(SeqsUpTo(RangePool, MaxMeta), {<<>>}, {NoneV}, {NoneV}, RangeStores)

SpecRange == InitRange /\ [][Next]_vars

(***************************************************************************)
(* SpecCount: two tables, one of them empty, unreachable or filled, with   *)
(* no expected-count map, an empty one, and maps that name one table with  *)
(* the right or a wrong count.                                             *)
(***************************************************************************)
CountPool ==
    {Meta(IF tb = TblPlain THEN "f1" ELSE "f2", "c1", DbPlain, tb, TypeInteger, FlagN,
          ReqInsert, NoneV, NoneV, NoneV, FlagN, FlagN) :
       tb \in {TblPlain, TblDotted}}

CountTable(status, rows) ==
    Table(status, rows, <<Col("c1", TypeInteger, FALSE)>>, [c \in {"c1"} |-> Clean(rows)])

CountStores ==
    {[t \in {T1, T2} |->
        IF t = T1 THEN CountTable(st[1], st[2]) ELSE CountTable("up", SmallRows)] :
       st \in {<<"conn", SmallRows>>, <<"up", 0>>, <<"up", SmallRows>>}}

\* expected_counts: None or a dict from "db.table" to a count.
CountExpectations ==
    {NoneV, Some(<<>>)}
    \cup {Some([k \in {DbPlain \o <<".">> \o tb} |-> n]) :
            tb \in {TblPlain, TblDotted}, n \in {0, SmallRows - 1, SmallRows}}

InitCount ==
    InitWith(SeqsUpTo(CountPool, MaxMeta), {<<>>, <<Enum("E1", "a")>>},
             CountExpectations, {NoneV, Some(<<>>), Some(<<"f1">>)}, CountStores)

SpecCount == InitCount /\ [][Next]_vars

(***************************************************************************)
(* SpecInsertAppend: groups of one or two records whose request modes are  *)
(* known in either letter case or unknown, and agree or not.               *)
(***************************************************************************)
InsertAppendPool ==
    {Meta("f1", "c1", DbPlain, tb, TypeInteger, FlagN, rq, NoneV, NoneV, NoneV,
          FlagN, FlagN) :
       tb \in {TblPlain, TblDotted},
       rq \in {ReqInsert, ReqAppend, ReqLowerAppend, ReqOther}}

InsertAppendStores ==
    {[t \in {T1, T2} |->
        IF t = T1 THEN CountTable(st[1], st[2]) ELSE CountTable("up", SmallRows)] :
       st \in {<<"conn", SmallRows>>, <<"up", 0>>, <<"up", SmallRows>>}}

InitInsertAppend ==
    InitWith(SeqsUpTo(InsertAppendPool, MaxMeta), {<<>>}, {NoneV}, {NoneV},
             InsertAppendStores)

SpecInsertAppend == InitInsertAppend /\ [][Next]_vars

(***************************************************************************)
(* SpecTypes: one column whose declared and actual type strings range over *)
(* names of each kind: bucket names, a name with a length, a name of no    *)
(* bucket and a name that holds the names of two buckets.                  *)
(***************************************************************************)
TypeNames ==
    {TypeInteger, TypeInt, TypeVarchar, TypeVarchar50, TypeDate, TypeMoney,
     TypeDateAsText}

TypesPool ==
    {Meta("f1", "c1", DbPlain, TblPlain, ty, FlagN, ReqInsert, NoneV, NoneV, NoneV,
          FlagN, FlagN) :
       ty \in TypeNames}

TypesStores ==
    {[t \in {T1} |-> DataTypeTable(s, <<>>)] : s \in {"conn", "intro"}}
    \cup {[t \in {T1} |-> DataTypeTable("up", <<Col("c1", ty, FALSE)>>)] :
            ty \in TypeNames}

InitTypes ==
    InitWith(SeqsUpTo(TypesPool, MaxMeta), {<<>>}, {NoneV}, {NoneV}, TypesStores)

SpecTypes == InitTypes /\ [][Next]_vars

(***************************************************************************)
(* SpecPaths: one table that is unreachable, cannot be described, rejects  *)
(* the column, is empty, clean or dirty, under metadata that sets every    *)
(* constraint, so that each validator takes each of its paths.             *)
(***************************************************************************)
PathsPool ==
    {Meta("f1", "c1", DbPlain, TblPlain, TypeInteger, FlagN, rq, Some("E1"), Some("0"),
          NoneV, FlagY, FlagY) :
       rq \in {ReqInsert, ReqOther}}
    \cup {Staging(FlagN, ReqInsert, Some("E1"), Some("0"), NoneV, FlagY, FlagY),
          Staging(FlagN, ReqInsert, NoneV, NoneV, NoneV, FlagY, FlagN)}

PathsTables ==
    {Table("conn", SmallRows, <<>>, [c \in {"c1"} |-> Clean(SmallRows)]),
     Table("intro", SmallRows, <<>>, [c \in {"c1"} |-> Clean(SmallRows)]),
     Table("up", SmallRows, <<Col("c1", TypeInt, FALSE)>>,
           [c \in {"c1"} |-> [Clean(SmallRows) EXCEPT !.bad = TRUE]]),
     Table("up", 0, <<Col("c1", TypeInt, FALSE)>>, [c \in {"c1"} |-> Clean(0)]),
     Table("up", SmallRows, <<Col("c1", TypeInt, FALSE)>>,
           [c \in {"c1"} |-> Clean(SmallRows)]),
     Table("up", SmallRows, <<Col("c1", TypeVarchar, TRUE)>>,
           [c \in {"c1"} |->
              Facts(FALSE, 2, SmallRows - 1, 3, 0,
                    [v \in {"a", "b"} |-> IF v = "a" THEN SmallRows - 3 ELSE 1])])}

PathsStores == {[t \in {T1} |-> tb] : tb \in PathsTables}

InitPaths ==
    InitWith(SeqsUpTo(PathsPool, MaxMeta), {<<>>, <<Enum("E1", "a")>>},
             {NoneV, Some([k \in {DbPlain \o <<".">> \o TblPlain} |-> SmallRows - 1])},
             {NoneV, Some(<<"f1">>)}, PathsStores)

SpecPaths == InitPaths /\ [][Next]_vars

(***************************************************************************)
(* SpecReplay: runs of several calls on the inputs of SpecPaths, on a      *)
(* table that is unreachable, clean or dirty, with the first call of the   *)
(* run recorded.                                                           *)
(***************************************************************************)
InitReplay ==
    /\ metadata \in SeqsUpTo(PathsPool, MaxMeta)
    /\ enumeration_metadata = <<Enum("E1", "a")>>
    /\ expected_counts = NoneV
    /\ selected_feeds \in {NoneV, Some(<<"f1">>)}
    /\ store \in {st \in PathsStores :
                     /\ st[T1].status # "intro"
                     /\ st[T1].rows = SmallRows
                     /\ ~st[T1].q["c1"].bad}
    /\ validator = "none"
    /\ results = <<>>
    /\ calls = <<>>
    /\ earlier = [armed |-> TRUE, others |-> FALSE, call |-> NoneV]
    /\ workbook = PlainWorkbook
    /\ run = Idle

SpecReplay == InitReplay /\ [][Next]_vars

(***************************************************************************)
(* SpecSteps: calls followed step by step, on two tables of which the      *)
(* first is unreachable, empty or filled, under records of three feeds and *)
(* a record of the staging sheet.  A call that has started goes on: every  *)
(* Data Access call returns or raises, and nothing else runs meanwhile.    *)
(***************************************************************************)
StepsPool ==
    {Meta("f1", "c1", DbPlain, TblPlain, TypeInteger, FlagN, ReqInsert, Some("E1"),
          Some("0"), NoneV, FlagY, FlagY),
     Meta("f2", "c1", DbPlain, TblDotted, TypeInteger, FlagN, ReqInsert, Some("E1"),
          Some("0"), NoneV, FlagY, FlagY),
     Meta("f3", "c2", DbPlain, TblPlain, TypeInteger, FlagN, ReqInsert, NoneV,
          NoneV, NoneV, FlagY, FlagN),
     Staging(FlagN, ReqInsert, Some("E1"), Some("0"), NoneV, FlagY, FlagY)}

InitSteps ==
    InitWith(SeqsUpTo(StepsPool, MaxMeta), {<<Enum("E1", "a")>>}, {NoneV},
             {NoneV, Some(<<"f1", "f2">>)}, CountStores)

SpecSteps == InitSteps /\ [][Next]_vars /\ WF_vars(Step) /\ WF_vars(Finish)

(***************************************************************************)
(* SpecIngest: the workbook varies; the validators run on one record.      *)
(***************************************************************************)
InitIngest ==
    /\ metadata = <<Meta("f1", "c1", DbPlain, TblPlain, TypeInteger, FlagN, ReqInsert,
                         Some("E1"), Some("0"), NoneV, FlagY, FlagY)>>
    /\ enumeration_metadata = <<>>
    /\ expected_counts = NoneV
    /\ selected_feeds = NoneV
    /\ store \in {st \in PathsStores : st[T1].status = "up" /\ st[T1].q["c1"] = Clean(SmallRows)}
    /\ validator = "none"
    /\ results = <<>>
    /\ calls = <<>>
    /\ earlier = [armed |-> FALSE, others |-> FALSE, call |-> NoneV]
    /\ workbook \in FeedWorkbooks \cup EnumWorkbooks \cup TokenWorkbooks \cup SheetlessWorkbooks
    /\ run = Idle

SpecIngest == InitIngest /\ [][Next]_vars

(***************************************************************************)
(* What a validator call was asked to evaluate, read off the inputs.       *)
(***************************************************************************)
\* The units of validator v in evaluation order: the (store, table) groups of
\* a table-level validator, the in-scope records of a column-level one.
UnitsOf(v) ==
    LET md == FilterFeeds(metadata, selected_feeds)
    IN CASE v \in TableLevel -> TableGroups(md)
         [] v = "nullable_constraint" -> md
         [] v = "unique_constraint" -> UniqueScope(md)
         [] v = "range_constraint" -> RangeScope(md)
         [] v = "enumeration_constraint" -> EnumScope(md)

\* The outcome of the Data Access calls made while unit u of validator v is
\* evaluated: the first call that raised, or a call that returned.
AccessOf(v, u) ==
    LET db == IF v \in TableLevel THEN SplitKey(u.table_key).db_name ELSE u.db_name
        tn == IF v \in TableLevel THEN SplitKey(u.table_key).table_name ELSE u.db_table
        rc == get_row_count(store, db, tn)
    IN CASE v = "data_type" -> get_table_schema(store, db, tn)
         [] v \in {"insert_append_logic", "count_check"} -> rc
         [] v = "completeness_check" ->
              IF ~rc.ok \/ rc.val = 0 THEN rc
              ELSE LET bad == {i \in DOMAIN u.table_metadata :
                                 ~check_nullable_constraints(store, db, tn,
                                      u.table_metadata[i].field_name).ok}
                   IN IF bad = {} THEN rc
                      ELSE check_nullable_constraints(store, db, tn,
                               u.table_metadata[CHOOSE i \in bad :
                                   \A j \in bad : i <= j].field_name)
         [] v = "nullable_constraint" ->
              check_nullable_constraints(store, db, tn, u.field_name)
         [] v = "unique_constraint" ->
              check_unique_constraints(store, db, tn, u.field_name)
         [] v = "range_constraint" ->
              check_range_constraints(store, db, tn, u.field_name,
                                      u.range_bottom, u.range_top)
         [] v = "enumeration_constraint" ->
              IF EnumLookup(enumeration_metadata, Get(u.enumeration)) = <<>>
              THEN Ok(0)
              ELSE check_enumeration_constraints(store, db, tn, u.field_name,
                       EnumLookup(enumeration_metadata, Get(u.enumeration)))

ErrorPrefix(v) ==
    CASE v = "data_type" -> "Error validating data types: "
      [] v = "nullable_constraint" -> "Error validating nullable constraints: "
      [] v = "unique_constraint" -> "Error validating unique constraints: "
      [] v = "range_constraint" -> "Error validating range constraints: "
      [] v = "enumeration_constraint" -> "Error validating enumeration constraints: "
      [] v = "insert_append_logic" -> "Error validating insert/append logic: "
      [] v = "count_check" -> "Error validating count checks: "
      [] v = "completeness_check" -> "Error validating completeness checks: "

\* Record rec reports unit u of validator v.
RecordIsFor(v, rec, u) ==
    /\ rec.validation_type = v
    /\ IF v \in TableLevel
       THEN /\ rec.db_name \o <<".">> \o rec.table_name = u.table_key
            /\ rec.feed_name = u.table_metadata[1].feed
       ELSE /\ rec.db_name = u.db_name
            /\ rec.table_name = u.db_table
            /\ rec.column_name = u.field_name
            /\ rec.feed_name = u.feed

(***************************************************************************)
(* C1.  Error isolation: when a Data Access call raises while unit i of a  *)
(* validator call is evaluated, the call still returns one record per      *)
(* unit, the record of unit i has status ERROR and carries the exception   *)
(* message, and every later unit has its record in the returned list.      *)
(***************************************************************************)
C1_ErrorIsolation ==
    validator \in Validators =>
        \A i \in DOMAIN UnitsOf(validator) :
            ~AccessOf(validator, UnitsOf(validator)[i]).ok =>
                /\ Len(results) = Len(UnitsOf(validator))
                /\ RecordIsFor(validator, results[i], UnitsOf(validator)[i])
                /\ results[i].validation_status = "ERROR"
                /\ results[i].error_message =
                       Msg(ErrorPrefix(validator),
                           AccessOf(validator, UnitsOf(validator)[i]).msg)
                /\ \A j \in (i + 1)..Len(results) :
                       RecordIsFor(validator, results[j], UnitsOf(validator)[j])

\* A completeness call whose first group raised and whose second group was
\* still evaluated to a verdict.
C1_Witness ==
    /\ validator = "completeness_check"
    /\ Len(results) = 2
    /\ ~AccessOf(validator, UnitsOf(validator)[1]).ok
    /\ results[1].validation_status = "ERROR"
    /\ results[2].validation_status = "PASS"

(***************************************************************************)
(* C2.  Every validator call returns exactly one record per evaluated      *)
(* unit: one per distinct (store, table) pair of the filtered metadata for *)
(* a table-level validator, one per in-scope record for a column-level     *)
(* one.                                                                    *)
(***************************************************************************)
StoreTablePairs(md) == {<<md[i].db_name, md[i].db_table>> : i \in DOMAIN md}

C2_OneRecordPerUnit ==
    validator \in Validators =>
        IF validator \in TableLevel
        THEN Len(results) =
                 Cardinality(StoreTablePairs(FilterFeeds(metadata, selected_feeds)))
        ELSE /\ Len(results) = Len(UnitsOf(validator))
             /\ \A i \in DOMAIN results :
                    RecordIsFor(validator, results[i], UnitsOf(validator)[i])

(***************************************************************************)
(* The enumeration validator's units and whether a unit's reference        *)
(* resolves to no allowed value in the catalog.                            *)
(***************************************************************************)
EnumUnits == EnumScope(FilterFeeds(metadata, selected_feeds))

Unresolved(meta) == EnumLookup(enumeration_metadata, Get(meta.enumeration)) = <<>>

EnumQueryOf(meta) ==
    Call("check_enumeration_constraints", meta.db_name, meta.db_table,
         Some(meta.field_name))

(***************************************************************************)
(* C3.  In an enumeration call the store is queried for exactly the units  *)
(* whose reference resolves, once each and in unit order: no               *)
(* check_enumeration_constraints call is made for a unit whose reference   *)
(* resolves to no allowed value, and that unit's invalid_count stays the   *)
(* initial 0 instead of a count read from the store.                       *)
(***************************************************************************)
C3_NoQueryWhenUnresolved ==
    validator = "enumeration_constraint" =>
        LET resolved == SelectSeq(EnumUnits, LAMBDA meta : ~Unresolved(meta))
        IN /\ Len(results) = Len(EnumUnits)
           /\ calls = [i \in DOMAIN resolved |-> EnumQueryOf(resolved[i])]
           /\ \A i \in DOMAIN EnumUnits :
                  Unresolved(EnumUnits[i]) => results[i].invalid_count = 0

\* An unresolved unit followed by a resolved one on a reachable table where a
\* query with no allowed value would have counted every row: one query only.
C3_Witness ==
    /\ validator = "enumeration_constraint"
    /\ Len(results) = 2
    /\ Unresolved(EnumUnits[1])
    /\ ~Unresolved(EnumUnits[2])
    /\ store[T1].status = "up"
    /\ check_enumeration_constraints(store, DbPlain, TblPlain,
                                     EnumUnits[1].field_name, <<>>).val = SmallRows
    /\ results[1].invalid_count = 0
    /\ results[2].invalid_count = 1
    /\ calls = <<EnumQueryOf(EnumUnits[2])>>

(***************************************************************************)
(* C4.  The enumeration validator's record of a unit whose reference       *)
(* resolves to no allowed value has status ERROR, whatever the store       *)
(* holds.                                                                  *)
(***************************************************************************)
C4_UnresolvedIsError ==
    validator = "enumeration_constraint" =>
        \A i \in DOMAIN EnumUnits :
            Unresolved(EnumUnits[i]) =>
                /\ i \in DOMAIN results
                /\ results[i].validation_status = "ERROR"

\* A reference to a name the non-empty catalog does not hold, on a reachable
\* table.
C4_Witness ==
    /\ validator = "enumeration_constraint"
    /\ Len(results) = 1
    /\ enumeration_metadata # <<>>
    /\ EnumUnits[1].enumeration = Some("E2")
    /\ store[T1].status = "up"
    /\ results[1].validation_status = "ERROR"
    /\ results[1].error_message = Msg("Enumeration not found in metadata", "")

(***************************************************************************)
(* The completeness validator's verdicts: the records of non-empty tables  *)
(* whose Data Access calls all returned.  The exact overall completeness   *)
(* of such a record is 100 * CompleteCells / AllCells.                     *)
(***************************************************************************)
Verdicts ==
    {i \in DOMAIN results :
        results[i].validation_status # "ERROR" /\ results[i].total_rows > 0}

CompleteCells(rec) ==
    SumSeq([k \in DOMAIN rec.column_completeness |->
               rec.total_rows - rec.column_completeness[k].null_count])

AllCells(rec) == rec.total_rows * Len(rec.column_completeness)

(***************************************************************************)
(* C5.  A completeness verdict is PASS iff the overall completeness is at  *)
(* least 95% and every mandatory column is 100% complete.                  *)
(***************************************************************************)
C5_PassNeedsMandatoryComplete ==
    validator = "completeness_check" =>
        \A i \in Verdicts :
            results[i].validation_status = "PASS" <=>
                /\ 100 * CompleteCells(results[i]) >= 95 * AllCells(results[i])
                /\ \A k \in DOMAIN results[i].column_completeness :
                       results[i].column_completeness[k].is_mandatory =>
                           results[i].column_completeness[k].null_count = 0

(***************************************************************************)
(* C6.  A completeness verdict is FAIL iff the overall_completeness_score  *)
(* of the record, a number of hundredths of a percent, is below 95.00.     *)
(***************************************************************************)
C6_RoundedBeforeComparison ==
    validator = "completeness_check" =>
        \A i \in Verdicts :
            results[i].validation_status = "FAIL" <=>
                results[i].overall_completeness_score < 9500

(***************************************************************************)
(* C6, amended.  The unrounded mean is compared with the threshold and the *)
(* rounded mean is stored: a completeness verdict is FAIL iff the exact    *)
(* overall completeness is below 95%, the stored score is that value       *)
(* rounded to hundredths, a stored score below 95.00 implies FAIL and FAIL *)
(* implies a stored score of at most 95.00.                                *)
(***************************************************************************)
C6_ComparedUnrounded ==
    validator = "completeness_check" =>
        \A i \in Verdicts :
            /\ results[i].validation_status \in {"PASS", "FAIL"}
            /\ results[i].validation_status = "FAIL" <=>
                   100 * CompleteCells(results[i]) < 95 * AllCells(results[i])
            /\ results[i].overall_completeness_score =
                   Round2(CompleteCells(results[i]), AllCells(results[i]))
            /\ results[i].overall_completeness_score < 9500 =>
                   results[i].validation_status = "FAIL"
            /\ results[i].validation_status = "FAIL" =>
                   results[i].overall_completeness_score <= 9500
            /\ \A k \in DOMAIN results[i].column_completeness :
                   results[i].column_completeness[k].null_count =
                       store[T1].q[results[i].column_completeness[k].column_name].nulls

\* A FAIL verdict whose stored score is 95.00: the mean was just below 95%.
C6_Witness ==
    /\ validator = "completeness_check"
    /\ \E i \in Verdicts :
          /\ results[i].validation_status = "FAIL"
          /\ results[i].overall_completeness_score = 9500
          /\ results[i].total_rows = BigRows

(***************************************************************************)
(* C7.  A data type record that is not ERROR is PASS iff every column the  *)
(* group's metadata declares is in the actual schema with a compatible     *)
(* type; columns of the table that the metadata does not declare do not    *)
(* count.                                                                  *)
(***************************************************************************)
C7_PassIffDeclaredColumnsMatch ==
    validator = "data_type" =>
        \A i \in DOMAIN results :
            results[i].validation_status # "ERROR" =>
                LET declared == TableGroups(FilterFeeds(metadata, selected_feeds))[i].table_metadata
                    schema == StoreAt(store, results[i].db_name, results[i].table_name).schema
                IN results[i].validation_status = "PASS" <=>
                       \A k \in DOMAIN declared :
                           \E c \in DOMAIN schema :
                               /\ schema[c].name = declared[k].field_name
                               /\ compare_data_types(Upper(schema[c].type),
                                                     Upper(declared[k].data_type))

(***************************************************************************)
(* The nullable validator's units, and the schema flag and null count the  *)
(* store holds for a unit's column.                                        *)
(***************************************************************************)
NullableUnits == FilterFeeds(metadata, selected_feeds)

SchemaFlagOf(meta) ==
    LET schema == StoreAt(store, meta.db_name, meta.db_table).schema
        found == {c \in DOMAIN schema : schema[c].name = meta.field_name}
    IN IF found = {} THEN NoneV ELSE {schema[c].nullable : c \in found}

(***************************************************************************)
(* C8.  For a record with mandatory = 'Y' whose Data Access call returned, *)
(* the nullable validator's status is FAIL iff null_count > 0.             *)
(***************************************************************************)
C8_MandatoryFailIffNulls ==
    validator = "nullable_constraint" =>
        \A i \in DOMAIN results :
            (NullableUnits[i].mandatory = FlagY
                 /\ results[i].validation_status # "ERROR") =>
                (results[i].validation_status = "FAIL" <=> results[i].null_count > 0)

(***************************************************************************)
(* C8, amended.  For a record whose mandatory flag is 'Y' in either letter *)
(* case and whose Data Access call returned, null_count is the column's    *)
(* null count, null_count > 0 implies FAIL, and the status is FAIL iff     *)
(* null_count > 0 or the schema's nullable flag is missing or differs from *)
(* the declared one.                                                       *)
(***************************************************************************)
C8_MandatoryFailIffNullsOrMismatch ==
    validator = "nullable_constraint" =>
        \A i \in DOMAIN results :
            (Upper(NullableUnits[i].mandatory) = <<"Y">>
                 /\ results[i].validation_status # "ERROR") =>
                /\ results[i].null_count =
                       store[T1].q[NullableUnits[i].field_name].nulls
                /\ results[i].null_count > 0 => results[i].validation_status = "FAIL"
                /\ results[i].validation_status = "FAIL" <=>
                       \/ results[i].null_count > 0
                       \/ SchemaFlagOf(NullableUnits[i]) #
                              Some(Upper(NullableUnits[i].nullable) = <<"Y">>)

\* Two mandatory records on a column without nulls that the schema says is
\* not nullable: the one declared nullable FAILs on the flag alone, the one
\* declared not nullable passes.
C8_Witness ==
    /\ validator = "nullable_constraint"
    /\ Len(results) = 2
    /\ NullableUnits[1].mandatory = FlagY
    /\ NullableUnits[1].nullable = FlagY
    /\ NullableUnits[2].mandatory = FlagY
    /\ NullableUnits[2].nullable = FlagN
    /\ results[1].null_count = 0
    /\ results[1].validation_status = "FAIL"
    /\ results[1].error_message = Some(<<"Nullable setting mismatch">>)
    /\ results[2].validation_status = "PASS"

(***************************************************************************)
(* C9.  A nullable record whose Data Access call returned is PASS iff      *)
(* (mandatory = 'Y' implies null_count = 0) and the schema's nullable flag *)
(* equals the declared one, 'Y' meaning true and anything else false; it   *)
(* is FAIL otherwise, in particular when the schema has no such column.    *)
(***************************************************************************)
C9_PassIffBothHold ==
    validator = "nullable_constraint" =>
        \A i \in DOMAIN results :
            results[i].validation_status # "ERROR" =>
                /\ results[i].validation_status \in {"PASS", "FAIL"}
                /\ results[i].validation_status = "PASS" <=>
                       /\ NullableUnits[i].mandatory = FlagY =>
                              results[i].null_count = 0
                       /\ results[i].actual_nullable =
                              Some(NullableUnits[i].nullable = FlagY)

(***************************************************************************)
(* C9, amended.  The declared flags are read ignoring letter case: a       *)
(* nullable record whose Data Access call returned is PASS iff (mandatory  *)
(* upper-cased = 'Y' implies null_count = 0) and the schema's nullable     *)
(* flag equals (nullable upper-cased = 'Y'); it is FAIL otherwise, in      *)
(* particular when the schema has no such column.                          *)
(***************************************************************************)
C9_PassIffBothHoldAnyCase ==
    validator = "nullable_constraint" =>
        /\ Len(results) = Len(NullableUnits)
        /\ \A i \in DOMAIN results :
               results[i].validation_status # "ERROR" =>
                   /\ results[i].validation_status \in {"PASS", "FAIL"}
                   /\ results[i].actual_nullable = SchemaFlagOf(NullableUnits[i])
                   /\ results[i].validation_status = "PASS" <=>
                          /\ Upper(NullableUnits[i].mandatory) = <<"Y">> =>
                                 results[i].null_count = 0
                          /\ results[i].actual_nullable =
                                 Some(Upper(NullableUnits[i].nullable) = <<"Y">>)
                   /\ results[i].actual_nullable = NoneV =>
                          results[i].validation_status = "FAIL"

\* Lower-case flags: 'y' declared nullable passes on a nullable column, and
\* 'y' declared mandatory fails on a column with a null.
C9_Witness ==
    /\ validator = "nullable_constraint"
    /\ Len(results) = 2
    /\ NullableUnits[1].nullable = FlagLowerY
    /\ NullableUnits[1].mandatory = FlagN
    /\ results[1].actual_nullable = Some(TRUE)
    /\ results[1].validation_status = "PASS"
    /\ NullableUnits[2].nullable = FlagLowerY
    /\ NullableUnits[2].mandatory = FlagLowerY
    /\ results[2].null_count = 1
    /\ results[2].validation_status = "FAIL"
    /\ results[2].error_message = Some(<<"Mandatory field has null values">>)

(***************************************************************************)
(* C10.  The unique validator returns one record per filtered metadata     *)
(* record with unique = 'Y' and none for the others; in a record whose     *)
(* Data Access call returned, duplicate_count = total_count -              *)
(* distinct_count >= 0, and the status is FAIL iff duplicate_count > 0,    *)
(* PASS iff total_count = distinct_count.                                  *)
(***************************************************************************)
C10_UniqueYOnly ==
    validator = "unique_constraint" =>
        LET scope == SelectSeq(FilterFeeds(metadata, selected_feeds),
                               LAMBDA meta : meta.unique = FlagY)
        IN /\ Len(results) = Len(scope)
           /\ \A i \in DOMAIN results :
                  /\ results[i].expected_unique = FlagY
                  /\ results[i].validation_status # "ERROR" =>
                         /\ results[i].duplicate_count =
                                results[i].total_count - results[i].distinct_count
                         /\ results[i].duplicate_count >= 0
                         /\ results[i].validation_status = "FAIL" <=>
                                results[i].duplicate_count > 0
                         /\ results[i].validation_status = "PASS" <=>
                                results[i].total_count = results[i].distinct_count

(***************************************************************************)
(* C10, amended.  The unique flag is read ignoring letter case: the unique *)
(* validator returns one record per filtered metadata record whose unique  *)
(* flag upper-cased is 'Y', in order, and none for the others; in a record *)
(* whose Data Access call returned, total_count and distinct_count are the *)
(* table's row count and the column's distinct count, duplicate_count =    *)
(* total_count - distinct_count >= 0, and the status is FAIL iff           *)
(* duplicate_count > 0, PASS iff total_count = distinct_count.             *)
(***************************************************************************)
C10_UniqueAnyCase ==
    validator = "unique_constraint" =>
        LET scope == SelectSeq(FilterFeeds(metadata, selected_feeds),
                               LAMBDA meta : Upper(meta.unique) = <<"Y">>)
        IN /\ Len(results) = Len(scope)
           /\ \A i \in DOMAIN results :
                  /\ results[i].column_name = scope[i].field_name
                  /\ results[i].expected_unique = scope[i].unique
                  /\ results[i].validation_status # "ERROR" =>
                         /\ results[i].total_count = store[T1].rows
                         /\ results[i].distinct_count =
                                store[T1].q[scope[i].field_name].distinct
                         /\ results[i].duplicate_count =
                                results[i].total_count - results[i].distinct_count
                         /\ results[i].duplicate_count >= 0
                         /\ results[i].validation_status = "FAIL" <=>
                                results[i].duplicate_count > 0
                         /\ results[i].validation_status = "PASS" <=>
                                results[i].total_count = results[i].distinct_count

\* A record declared unique with a lower-case 'y' whose column repeats one
\* value, after a record declared 'N' that produced nothing.
C10_Witness ==
    /\ validator = "unique_constraint"
    /\ Len(metadata) = 2
    /\ metadata[1].unique = FlagN
    /\ metadata[2].unique = FlagLowerY
    /\ Len(results) = 1
    /\ results[1].total_count = SmallRows
    /\ results[1].duplicate_count = 1
    /\ results[1].validation_status = "FAIL"

(***************************************************************************)
(* A bound is set when it is neither None nor the empty text.              *)
(***************************************************************************)
BoundSet(bound) == bound \notin {NoneV, Some("")}

(***************************************************************************)
(* C11.  The range validator returns one record per filtered metadata      *)
(* record with range_bottom or range_top set, in order, and none for the   *)
(* others.  When the Data Access call returned, only the bounds that are   *)
(* set were counted: the count of a set bound is the store's count, the    *)
(* count of an absent bound is 0 whatever the store holds, and the status  *)
(* is PASS iff below_range_count + above_range_count = 0, FAIL iff that    *)
(* sum is > 0.                                                             *)
(***************************************************************************)
C11_RangeVerdict ==
    validator = "range_constraint" =>
        LET scope == SelectSeq(FilterFeeds(metadata, selected_feeds),
                               LAMBDA meta : BoundSet(meta.range_bottom)
                                                 \/ BoundSet(meta.range_top))
        IN /\ Len(results) = Len(scope)
           /\ \A i \in DOMAIN results :
                  /\ results[i].column_name = scope[i].field_name
                  /\ results[i].range_bottom = scope[i].range_bottom
                  /\ results[i].range_top = scope[i].range_top
                  /\ results[i].validation_status # "ERROR" =>
                         /\ results[i].below_range_count =
                                IF BoundSet(scope[i].range_bottom)
                                THEN store[T1].q[scope[i].field_name].below ELSE 0
                         /\ results[i].above_range_count =
                                IF BoundSet(scope[i].range_top)
                                THEN store[T1].q[scope[i].field_name].above ELSE 0
                         /\ results[i].validation_status = "PASS" <=>
                                results[i].below_range_count
                                    + results[i].above_range_count = 0
                         /\ results[i].validation_status = "FAIL" <=>
                                results[i].below_range_count
                                    + results[i].above_range_count > 0

\* A record with only an upper bound passes on a column that has values
\* below every lower bound, and a record with only a lower bound fails on the same column.
C11_Witness ==
    /\ validator = "range_constraint"
    /\ Len(metadata) = 2
    /\ metadata[1].range_bottom = NoneV
    /\ metadata[1].range_top = Some("9")
    /\ metadata[2].range_bottom = Some("0")
    /\ metadata[2].range_top = Some("")
    /\ store[T1].q["c1"].below = 3
    /\ store[T1].q["c1"].above = 0
    /\ Len(results) = 2
    /\ results[1].below_range_count = 0
    /\ results[1].validation_status = "PASS"
    /\ results[2].below_range_count = 3
    /\ results[2].validation_status = "FAIL"

(***************************************************************************)
(* C12.  The enumeration validator returns one record per filtered         *)
(* metadata record with an enumeration reference, in order, and none for   *)
(* the others.  The record's allowed_values are the values of the catalog  *)
(* rows whose name equals the reference exactly, in catalog order.  When   *)
(* they are not empty and the query returned, invalid_count is the number  *)
(* of rows holding another value, and the status is PASS iff               *)
(* invalid_count = 0, FAIL iff invalid_count > 0.                          *)
(***************************************************************************)
C12_EnumerationVerdict ==
    validator = "enumeration_constraint" =>
        LET scope == SelectSeq(FilterFeeds(metadata, selected_feeds),
                               LAMBDA meta : meta.enumeration \notin {NoneV, Some("")})
        IN /\ Len(results) = Len(scope)
           /\ \A i \in DOMAIN results :
                  LET rows == SelectSeq(enumeration_metadata,
                                  LAMBDA e : {e.enumeration_name} = scope[i].enumeration)
                      vals == store[T1].q[scope[i].field_name].vals
                      others == {v \in DOMAIN vals :
                                    \A k \in DOMAIN rows : rows[k].enum_values # v}
                  IN /\ results[i].column_name = scope[i].field_name
                     /\ results[i].enumeration_name = scope[i].enumeration
                     /\ results[i].allowed_values =
                            [k \in DOMAIN rows |-> rows[k].enum_values]
                     /\ (rows # <<>> /\ results[i].validation_status # "ERROR") =>
                            /\ results[i].invalid_count = SumOver(vals, others)
                            /\ results[i].validation_status = "PASS" <=>
                                   results[i].invalid_count = 0
                            /\ results[i].validation_status = "FAIL" <=>
                                   results[i].invalid_count > 0

\* A catalog holding the reference's name in another letter case: that row's
\* value is not allowed, and the row of the column holding it is counted.
C12_Witness ==
    /\ validator = "enumeration_constraint"
    /\ enumeration_metadata = <<Enum("E1", "a"), Enum("e1", "b")>>
    /\ Len(metadata) = 2
    /\ metadata[1].enumeration = Some("")
    /\ metadata[2].enumeration = Some("E1")
    /\ Len(results) = 1
    /\ results[1].allowed_values = <<"a">>
    /\ results[1].invalid_count = 1
    /\ results[1].validation_status = "FAIL"

(***************************************************************************)
(* C13.  A count check record whose row-count query returned holds the     *)
(* table's row count and the expectation supplied for the table, if any;   *)
(* it is PASS iff the count is > 0 and the expected-count map has no entry *)
(* for the table or the entry equals the count, and FAIL iff the count is  *)
(* 0 or the entry differs from the count.                                  *)
(***************************************************************************)
C13_CountVerdict ==
    validator = "count_check" =>
        \A i \in DOMAIN results :
            results[i].validation_status # "ERROR" =>
                LET key == results[i].db_name \o <<".">> \o results[i].table_name
                    rows == StoreAt(store, results[i].db_name, results[i].table_name).rows
                    has == IF expected_counts = NoneV THEN FALSE
                           ELSE key \in DOMAIN Get(expected_counts)
                    want == IF has THEN Get(expected_counts)[key] ELSE rows
                IN /\ results[i].actual_count = rows
                   /\ results[i].expected_count = IF has THEN Some(want) ELSE NoneV
                   /\ results[i].validation_status = "PASS" <=>
                          (rows > 0 /\ (~has \/ rows = want))
                   /\ results[i].validation_status = "FAIL" <=>
                          (rows = 0 \/ (has /\ rows # want))

\* A map that names only the second table, with a wrong count: the first
\* table passes on its rows alone, the second fails on the mismatch.
C13_Witness ==
    /\ validator = "count_check"
    /\ Len(results) = 2
    /\ expected_counts = Some([k \in {DbPlain \o <<".">> \o TblDotted} |-> SmallRows - 1])
    /\ results[1].table_name = TblPlain
    /\ results[1].actual_count = SmallRows
    /\ results[1].expected_count = NoneV
    /\ results[1].validation_status = "PASS"
    /\ results[2].table_name = TblDotted
    /\ results[2].expected_count = Some(SmallRows - 1)
    /\ results[2].validation_status = "FAIL"

(***************************************************************************)
(* The first records of the (db_name, db_table) pairs of a metadata        *)
(* sequence: the indices at which a pair occurs for the first time.        *)
(***************************************************************************)
FirstOfPair(md) ==
    SelectSeq([i \in 1..Len(md) |-> i],
              LAMBDA i : \A j \in 1..(i - 1) :
                  <<md[j].db_name, md[j].db_table>> # <<md[i].db_name, md[i].db_table>>)

(***************************************************************************)
(* C14.  The insert/append validator returns one record per (db_name,      *)
(* db_table) pair, carrying the request mode of the pair's first record    *)
(* whatever the later records say.  When the row-count query returned, the *)
(* status is PASS if that mode, upper-cased, is INSERT or APPEND, and      *)
(* ERROR with the unknown-mode message otherwise; it is never FAIL.        *)
(***************************************************************************)
C14_FirstRecordMode ==
    validator = "insert_append_logic" =>
        LET md == FilterFeeds(metadata, selected_feeds)
            firsts == FirstOfPair(md)
        IN /\ Len(results) = Len(firsts)
           /\ \A g \in DOMAIN results :
                  LET first == md[firsts[g]]
                      tb == StoreAt(store, first.db_name, first.db_table)
                  IN /\ results[g].db_name = first.db_name
                     /\ results[g].table_name = first.db_table
                     /\ results[g].request_type = first.request
                     /\ results[g].validation_status # "FAIL"
                     /\ tb.status = "up" =>
                            /\ results[g].current_row_count = tb.rows
                            /\ results[g].validation_status =
                                   IF Upper(first.request) \in
                                          {<<"I", "N", "S", "E", "R", "T">>,
                                           <<"A", "P", "P", "E", "N", "D">>}
                                   THEN "PASS" ELSE "ERROR"
                            /\ results[g].validation_status = "ERROR" =>
                                   results[g].error_message =
                                       Msg("Unknown request type", "")

\* A group whose first record says "append" and whose second says "Upsert"
\* passes.
C14_Witness ==
    /\ validator = "insert_append_logic"
    /\ Len(metadata) = 2
    /\ metadata[1].db_table = metadata[2].db_table
    /\ metadata[1].request = ReqLowerAppend
    /\ metadata[2].request = ReqOther
    /\ store[T1].status = "up"
    /\ Len(results) = 1
    /\ results[1].request_type = ReqLowerAppend
    /\ results[1].validation_status = "PASS"

(***************************************************************************)
(* x, a number of hundredths, is 100 * num / den rounded to two decimals:  *)
(* no hundredth is nearer.                                                 *)
(***************************************************************************)
IsRounded(x, num, den) ==
    \/ x = Hundredths(num, den) /\ 2 * LeftOver(num, den) <= den
    \/ x = Hundredths(num, den) + 1 /\ 2 * LeftOver(num, den) >= den

(***************************************************************************)
(* C15.  In a completeness verdict of a non-empty table every column's     *)
(* null_count is the store's, in 0..rows; every per-column                 *)
(* completeness_percentage is (rows - null_count) / rows * 100 rounded to  *)
(* two decimals; the overall score is the unweighted mean of these         *)
(* unrounded percentages over the declared columns, rounded to two         *)
(* decimals; and all of them lie in [0, 100].                              *)
(***************************************************************************)
C15_ScoreIsRoundedMean ==
    validator = "completeness_check" =>
        \A i \in Verdicts :
            LET declared == FilterFeeds(metadata, selected_feeds)
                rows == store[T1].rows
                nulls == [k \in DOMAIN declared |->
                             store[T1].q[declared[k].field_name].nulls]
                cols == results[i].column_completeness
            IN /\ results[i].total_rows = rows
               /\ Len(cols) = Len(declared)
               /\ \A k \in DOMAIN cols :
                      /\ cols[k].column_name = declared[k].field_name
                      /\ cols[k].null_count = nulls[k]
                      /\ nulls[k] \in 0..rows
                      /\ cols[k].completeness_percentage \in 0..10000
                      /\ IsRounded(cols[k].completeness_percentage,
                                   rows - nulls[k], rows)
               /\ results[i].overall_completeness_score \in 0..10000
               /\ IsRounded(results[i].overall_completeness_score,
                            SumSeq([k \in DOMAIN nulls |-> rows - nulls[k]]),
                            rows * Len(declared))

\* A large table with one null in the first column and 5001 in the second:
\* 99.999% is recorded as 100.00, 94.999% as 95.00 and their mean 97.499% as
\* 97.50.
C15_Witness ==
    /\ validator = "completeness_check"
    /\ Len(results) = 1
    /\ results[1].total_rows = BigRows
    /\ Len(results[1].column_completeness) = 2
    /\ results[1].column_completeness[1].null_count = 1
    /\ results[1].column_completeness[1].completeness_percentage = 10000
    /\ results[1].column_completeness[2].null_count = 5001
    /\ results[1].column_completeness[2].completeness_percentage = 9500
    /\ results[1].overall_completeness_score = 9750
    /\ results[1].validation_status = "PASS"

(***************************************************************************)
(* What validator v returns for metadata md and feed filter selected on    *)
(* the current catalog, expected counts and store.                         *)
(***************************************************************************)
RunOf(v, md, selected) ==
    CASE v = "data_type" -> validate_data_types(md, selected, store)
      [] v = "nullable_constraint" -> validate_nullable_constraints(md, selected, store)
      [] v = "unique_constraint" -> validate_unique_constraints(md, selected, store)
      [] v = "range_constraint" -> validate_range_constraints(md, selected, store)
      [] v = "enumeration_constraint" ->
           validate_enumeration_constraints(md, enumeration_metadata, selected, store)
      [] v = "insert_append_logic" -> validate_insert_append_logic(md, selected, store)
      [] v = "count_check" -> validate_count_checks(md, expected_counts, selected, store)
      [] v = "completeness_check" -> validate_completeness_checks(md, selected, store)

\* The records of md whose feed is one of names.
MembersOf(md, names) == SelectSeq(md, LAMBDA meta : \E k \in DOMAIN names : names[k] = meta.feed)

(***************************************************************************)
(* C16.  When a feed filter is given, the empty list included, a validator *)
(* call evaluates only the metadata records whose feed is in the filter:   *)
(* every record's feed_name is in the filter, and the records and the Data *)
(* Access calls are those of a call on the member records alone.  When no  *)
(* filter is given they are those of all the metadata.                     *)
(***************************************************************************)
C16_FilterWheneverGiven ==
    validator \in Validators =>
        IF selected_feeds # NoneV
        THEN /\ \A i \in DOMAIN results :
                    \E k \in DOMAIN Get(selected_feeds) :
                        Get(selected_feeds)[k] = results[i].feed_name
             /\ results = RunOf(validator, MembersOf(metadata, Get(selected_feeds)),
                                NoneV).results
             /\ calls = RunOf(validator, MembersOf(metadata, Get(selected_feeds)),
                              NoneV).calls
        ELSE /\ results = RunOf(validator, metadata, NoneV).results
             /\ calls = RunOf(validator, metadata, NoneV).calls

(***************************************************************************)
(* C16, amended.  When a non-empty feed filter is given, a validator call  *)
(* evaluates only the metadata records whose feed is in the filter: every  *)
(* record's feed_name is in the filter, and the records and the Data       *)
(* Access calls are those of a call on the member records alone.  When no  *)
(* filter is given, or the filter is the empty list, all the metadata is   *)
(* evaluated: the nullable validator then returns one record per metadata  *)
(* record.                                                                 *)
(***************************************************************************)
C16_FilterWhenNonEmpty ==
    validator \in Validators =>
        IF selected_feeds \notin {NoneV, Some(<<>>)}
        THEN /\ \A i \in DOMAIN results :
                    \E k \in DOMAIN Get(selected_feeds) :
                        Get(selected_feeds)[k] = results[i].feed_name
             /\ results = RunOf(validator, MembersOf(metadata, Get(selected_feeds)),
                                NoneV).results
             /\ calls = RunOf(validator, MembersOf(metadata, Get(selected_feeds)),
                              NoneV).calls
        ELSE /\ results = RunOf(validator, metadata, NoneV).results
             /\ calls = RunOf(validator, metadata, NoneV).calls
             /\ validator = "nullable_constraint" =>
                    /\ Len(results) = Len(metadata)
                    /\ \A i \in DOMAIN results :
                           results[i].feed_name = metadata[i].feed

\* A filter naming the second record's feed and a feed no record has: the
\* first record is left out and no call is made for its column.
C16_Witness ==
    /\ validator = "nullable_constraint"
    /\ selected_feeds = Some(<<"f3", "f2">>)
    /\ Len(metadata) = 2
    /\ metadata[1].feed = "f1"
    /\ metadata[2].feed = "f2"
    /\ Len(results) = 1
    /\ results[1].feed_name = "f2"
    /\ Len(calls) = 1
    /\ calls[1].column_name = Some("c2")

(***************************************************************************)
(* C17.  On an empty metadata input every validator returns the empty list *)
(* and makes no Data Access call, whatever the feed filter, the catalog,   *)
(* the expected-count map and the store are.                               *)
(***************************************************************************)
C17_EmptyInEmptyOut ==
    (validator \in Validators /\ metadata = <<>>) => (results = <<>> /\ calls = <<>>)

\* The count check on no metadata, with a filter, a catalog and an expected
\* count for a table of an unreachable store.
C17_Witness ==
    /\ validator = "count_check"
    /\ metadata = <<>>
    /\ selected_feeds = Some(<<"f1">>)
    /\ enumeration_metadata # <<>>
    /\ expected_counts = Some([k \in {DbPlain \o <<".">> \o TblPlain} |-> SmallRows])
    /\ store[T1].status = "conn"
    /\ results = <<>>
    /\ calls = <<>>

InBucket(b, type) == \E variant \in type_mappings[b] : Contains(variant, type)

BucketsOf(type) == {b \in DOMAIN type_mappings : InBucket(b, type)}

\* The two strings the connector compares for column c1.
ActualType == Upper(store[T1].schema[1].type)

ExpectedType == Upper(ExpectedSchema(metadata)["c1"])

(***************************************************************************)
(* C19.  The verdict on a declared column is true iff its actual and its   *)
(* expected type string fall in the same bucket or are equal; each of the  *)
(* two strings falls in at most one bucket, the verdict is the same with   *)
(* the two strings exchanged, and strings of different buckets are not     *)
(* reported compatible.                                                    *)
(***************************************************************************)
C19_SameBucketOrEqual ==
    (/\ validator = "data_type"
     /\ Len(results) = 1
     /\ results[1].validation_status \in {"PASS", "FAIL"}) =>
        /\ Cardinality(BucketsOf(ActualType)) <= 1
        /\ Cardinality(BucketsOf(ExpectedType)) <= 1
        /\ results[1].column_validations[1].validation_passed <=>
               \/ BucketsOf(ActualType) \cap BucketsOf(ExpectedType) # {}
               \/ ActualType = ExpectedType
        /\ results[1].column_validations[1].validation_passed =
               compare_data_types(ExpectedType, ActualType)
        /\ (\E a \in BucketsOf(ActualType) : \E e \in BucketsOf(ExpectedType) : a # e)
               => ~results[1].column_validations[1].validation_passed

(***************************************************************************)
(* The table a caller's connector call addressed, and whether the call met *)
(* a failure: the store could not be reached, or a statement of the call   *)
(* was rejected (the table is not there, cannot be described, or the       *)
(* column is not accepted).  A table that is not there is no failure of    *)
(* check_table_exists: it is its negative answer.                          *)
(***************************************************************************)
CalledTable == StoreAt(store, calls[1].db_name, calls[1].table_name)

ColumnOps ==
    {"check_nullable_constraints", "check_unique_constraints",
     "check_range_constraints", "check_enumeration_constraints"}

CallFailed ==
    \/ CalledTable.status = "conn"
    \/ validator # "check_table_exists" /\ CalledTable.status = "missing"
    \/ /\ validator \in {"get_table_schema", "check_nullable_constraints"}
       /\ CalledTable.status = "intro"
    \/ /\ validator \in ColumnOps
       /\ CalledTable.status \in {"up", "intro"}
       /\ \/ "c1" \notin DOMAIN CalledTable.q
          \/ CalledTable.q["c1"].bad

(***************************************************************************)
(* C20.  A connector call other than test_connection that meets a          *)
(* connectivity or query failure raises: it does not return a value.       *)
(***************************************************************************)
C20_FailuresPropagate ==
    (validator \in AccessOps /\ CallFailed) => ~results[1].ok

(***************************************************************************)
(* C21.  test_connection never raises: it returns true when the probe of   *)
(* the engine behind the name is served and false when it is not, for a    *)
(* name of either engine.                                                  *)
(***************************************************************************)
C21_ProbeNeverRaises ==
    validator = "test_connection" =>
        /\ results[1].ok
        /\ results[1].val =
               \E id \in DOMAIN store :
                   /\ id[1] = get_engine(calls[1].db_name)
                   /\ store[id].status # "conn"

\* The probe of the first engine while none of its tables can be reached.
C21_Witness ==
    /\ validator = "test_connection"
    /\ calls[1].db_name = DbPlain
    /\ \A id \in DOMAIN store : store[id].status = "conn"
    /\ results[1].ok
    /\ results[1].val = FALSE

C23_InputsUnchanged ==
    [][/\ metadata' = metadata
       /\ enumeration_metadata' = enumeration_metadata
       /\ expected_counts' = expected_counts]_vars

\* A filtered call on two records that ended in the record of the handler
\* around the whole call: the two records are still the caller's.
C23_Witness ==
    /\ validator = "nullable_constraint"
    /\ selected_feeds = Some(<<"f1">>)
    /\ Len(metadata) = 2
    /\ IsFeed(metadata[1])
    /\ ~IsFeed(metadata[2])
    /\ Len(results) = 1
    /\ results[1].validation_status = "ERROR"
    /\ earlier.others

(***************************************************************************)
(* Ingestion claims.  The source row of a loaded record is found by        *)
(* counting the rows of the sheet that hold both identifying fields.       *)
(***************************************************************************)
\* The source left the value out: the header is missing or the cell blank.
Omitted(df, row, name) == name \notin df.columns \/ row[name] = Blank

Identified(df, names) ==
    {i \in DOMAIN df.rows : \A name \in names : ~Omitted(df, df.rows[i], name)}

\* The index of the k-th row that holds the identifying fields names.
NthIdentified(df, names, k) ==
    CHOOSE i \in Identified(df, names) :
        Cardinality({j \in Identified(df, names) : j <= i}) = k

FeedSheet == Get(workbook.Feed_to_staging)

EnumSheet == Get(workbook.Enumeration)

FeedRowOf(k) == FeedSheet.rows[NthIdentified(FeedSheet, {"Modules", "Feed"}, k)]

EnumRowOf(k) == EnumSheet.rows[NthIdentified(EnumSheet, {"EnumerationName"}, k)]

LoadedFeeds == validator = "load_feed_metadata" /\ workbook.Feed_to_staging # NoneV

LoadedEnums == validator = "load_enumeration_metadata" /\ workbook.Enumeration # NoneV

\* C24: every record of the feed ingestion has nullable, mandatory and
\* unique equal to "N" where the source omitted the value (header missing
\* or cell blank), and default, enumeration, range_bottom and range_top
\* equal to None where the cell is blank.
C24_OmittedDefaults ==
    LoadedFeeds =>
        \A k \in DOMAIN results :
            /\ Omitted(FeedSheet, FeedRowOf(k), "Nullable") => results[k].nullable = FlagN
            /\ Omitted(FeedSheet, FeedRowOf(k), "Mandatory") => results[k].mandatory = FlagN
            /\ Omitted(FeedSheet, FeedRowOf(k), "Unique") => results[k].unique = FlagN
            /\ Omitted(FeedSheet, FeedRowOf(k), "Default") => results[k].default = NoneV
            /\ Omitted(FeedSheet, FeedRowOf(k), "Enumeration") => results[k].enumeration = NoneV
            /\ Omitted(FeedSheet, FeedRowOf(k), "RangeBottom") => results[k].range_bottom = NoneV
            /\ Omitted(FeedSheet, FeedRowOf(k), "RangeTop") => results[k].range_top = NoneV

\* C25: a row that lacks an identifying field (module or feed of a feed
\* row, enumeration name of an enumeration row) is skipped and the load
\* goes on: every other row yields exactly one record, in the order of the
\* rows.
C25_SkipsUnidentifiedRows ==
    /\ LoadedFeeds =>
          /\ Len(results) = Cardinality(Identified(FeedSheet, {"Modules", "Feed"}))
          /\ \A k \in DOMAIN results :
                /\ results[k].modules = Get(FeedRowOf(k)["Modules"])
                /\ results[k].feed = Get(FeedRowOf(k)["Feed"])
    /\ LoadedEnums =>
          /\ Len(results) = Cardinality(Identified(EnumSheet, {"EnumerationName"}))
          /\ \A k \in DOMAIN results :
                results[k].enumeration_name = Get(EnumRowOf(k)["EnumerationName"])

\* A sheet of two rows whose first has no module: the second is loaded.
C25_Witness ==
    /\ LoadedFeeds
    /\ Len(FeedSheet.rows) = 2
    /\ Omitted(FeedSheet, FeedSheet.rows[1], "Modules")
    /\ FeedSheet.columns = FeedColumns
    /\ Len(results) = 1
    /\ results[1].feed = <<"f", "2">>

\* The tokens t lie in raw at the positions p, left to right, a delimiter
\* between each two, and nothing but delimiters and whitespace around them.
LieAt(t, p, raw) ==
    /\ \A i \in DOMAIN t : p[i] + Len(t[i]) - 1 <= Len(raw)
                           /\ SubSeq(raw, p[i], p[i] + Len(t[i]) - 1) = t[i]
    /\ \A i \in DOMAIN t : i < Len(t) =>
          /\ p[i] + Len(t[i]) <= p[i + 1]
          /\ \E j \in (p[i] + Len(t[i]))..(p[i + 1] - 1) : IsDelimiter(raw[j])
    /\ \A j \in DOMAIN raw :
          (\A i \in DOMAIN t : j < p[i] \/ j >= p[i] + Len(t[i]))
             => IsDelimiter(raw[j]) \/ IsSpace(raw[j])

\* t is the list of the trimmed, non-empty sub-paths of raw, in order.
TokensOf(t, raw) ==
    /\ \A i \in DOMAIN t :
          /\ t[i] # <<>>
          /\ \A j \in DOMAIN t[i] : ~IsDelimiter(t[i][j])
          /\ ~IsSpace(t[i][1]) /\ ~IsSpace(t[i][Len(t[i])])
    /\ \E p \in [DOMAIN t -> DOMAIN raw] : LieAt(t, p, raw)

\* C26: the feed list of a record is the list of the sub-paths of its raw
\* feed string split on comma, pipe or semicolon, each trimmed, the empty
\* ones dropped, the order kept; a raw string without delimiter yields its
\* one trimmed token.
C26_FeedTokens ==
    LoadedFeeds =>
        \A k \in DOMAIN results :
            /\ TokensOf(results[k].feed_list, results[k].feed)
            /\ ((\A j \in DOMAIN results[k].feed : ~IsDelimiter(results[k].feed[j]))
                /\ (\E j \in DOMAIN results[k].feed : ~IsSpace(results[k].feed[j])))
                  => Len(results[k].feed_list) = 1

\* A raw string of a padded sub-path, a delimiter and a second sub-path.
C26_Witness ==
    /\ LoadedFeeds
    /\ Len(results) = 1
    /\ results[1].feed = <<"b", " ", ";", "a">>
    /\ results[1].feed_list = <<<<"b">>, <<"a">>>>

\* C27 as claimed: in every record a validator returns, the status is PASS
\* if and only if error_message is null.
C27_PassIffNoMessage ==
    validator \in Validators =>
        \A i \in DOMAIN results :
            results[i].validation_status = "PASS" <=> results[i].error_message = NoneV

\* C27, amended: a PASS record carries no message and an ERROR record
\* carries one; a FAIL record carries one unless it is a data_type record,
\* which carries none of its own and a message in the entry of each column
\* that failed.
C27_MessageByStatus ==
    validator \in Validators =>
        \A i \in DOMAIN results :
            /\ results[i].validation_status = "PASS" => results[i].error_message = NoneV
            /\ results[i].validation_status = "ERROR" => results[i].error_message # NoneV
            /\ (results[i].validation_status = "FAIL" /\ results[i].validation_type # "data_type")
                  => results[i].error_message # NoneV
            /\ (results[i].validation_status = "FAIL" /\ results[i].validation_type = "data_type")
                  => /\ results[i].error_message = NoneV
                     /\ \E c \in DOMAIN results[i].column_validations :
                           results[i].column_validations[c].error_message # NoneV

\* A data_type call that returns a FAIL record.
C27_Witness ==
    /\ validator = "data_type"
    /\ \E i \in DOMAIN results :
          /\ results[i].validation_status = "FAIL"
          /\ results[i].error_message = NoneV
          /\ \E c \in DOMAIN results[i].column_validations :
                ~results[i].column_validations[c].validation_passed

\* C28: in the table-level validators two records fall in the same group
\* iff their (db_name, db_table) are equal, and the db_name and table_name
\* of every result are those of the records of its group, whatever the
\* names, a '.' in them included: every result names the pair of a record
\* in scope, every pair in scope is named by a result, and by one only.
C28_GroupsAreStoreTablePairs ==
    (validator \in TableLevel /\ ~Foreign(metadata)) =>
        /\ \A i \in DOMAIN results :
              <<results[i].db_name, results[i].table_name>>
                  \in StoreTablePairs(FilterFeeds(metadata, selected_feeds))
        /\ \A pair \in StoreTablePairs(FilterFeeds(metadata, selected_feeds)) :
              \E i \in DOMAIN results :
                  <<results[i].db_name, results[i].table_name>> = pair
        /\ \A i, j \in DOMAIN results :
              <<results[i].db_name, results[i].table_name>>
                  = <<results[j].db_name, results[j].table_name>> => i = j

\* The table of result r has no row: get_row_count returns 0 for it.
EmptyTable(r) == get_row_count(store, r.db_name, r.table_name) = Ok(0)

\* C30: for a table whose row count is 0 the completeness validator emits
\* one record with status FAIL, total_rows 0, overall_completeness_score
\* 0.0 and no column entry, asks for the null count of none of its columns,
\* and goes on with the next group: every group has its record.
C30_EmptyTableFails ==
    (validator = "completeness_check" /\ ~Foreign(metadata)) =>
        /\ Len(results) = Len(TableGroups(FilterFeeds(metadata, selected_feeds)))
        /\ \A i \in DOMAIN results :
              EmptyTable(results[i]) =>
                  /\ results[i].validation_status = "FAIL"
                  /\ results[i].error_message # NoneV
                  /\ results[i].total_rows = 0
                  /\ results[i].overall_completeness_score = 0
                  /\ results[i].column_completeness = <<>>
                  /\ \A j \in DOMAIN results :
                        (results[j].db_name = results[i].db_name
                         /\ results[j].table_name = results[i].table_name) => j = i
                  /\ \A c \in DOMAIN calls :
                        (calls[c].db_name = results[i].db_name
                         /\ calls[c].table_name = results[i].table_name)
                            => calls[c].op = "get_row_count"

\* The record of an empty table, followed by the record of the next group.
C30_Witness ==
    /\ validator = "completeness_check"
    /\ Len(results) = 2
    /\ EmptyTable(results[1])
    /\ results[1].validation_status = "FAIL"
    /\ results[1].total_rows = 0
    /\ results[2].validation_status = "PASS"
    /\ calls[2].table_name = results[2].table_name

(***************************************************************************)
(* C29.  The groups of a table-level validator are counted by the first    *)
(* record of each key in the filtered metadata.                            *)
(***************************************************************************)
InScopeMetadata == FilterFeeds(metadata, selected_feeds)

KeyFirsts(md) == {i \in DOMAIN md : \A j \in 1..(i - 1) : KeyOf(md[j]) # KeyOf(md[i])}

\* The index of the first record of the k-th group.
NthFirst(md, k) ==
    CHOOSE i \in KeyFirsts(md) : Cardinality({j \in KeyFirsts(md) : j <= i}) = k

UnitCount(v) ==
    IF v \in TableLevel THEN Cardinality(KeyFirsts(InScopeMetadata))
    ELSE Len(UnitsOf(v))

\* Record rec is the record of the k-th unit of validator v.
ReportsUnit(v, rec, k) ==
    IF v \in TableLevel
    THEN /\ rec.db_name \o <<".">> \o rec.table_name
               = KeyOf(InScopeMetadata[NthFirst(InScopeMetadata, k)])
         /\ rec.feed_name = InScopeMetadata[NthFirst(InScopeMetadata, k)].feed
    ELSE RecordIsFor(v, rec, UnitsOf(v)[k])

\* While a call runs it holds the records of the units before its position,
\* in their order; what a call returns holds the record of every unit.
InUnitOrder ==
    ~Foreign(metadata) =>
        /\ run.name \in Validators =>
              /\ Len(results) = run.at
              /\ run.at <= UnitCount(run.name)
              /\ \A k \in DOMAIN results : ReportsUnit(run.name, results[k], k)
        /\ validator \in Validators =>
              /\ Len(results) = UnitCount(validator)
              /\ \A k \in DOMAIN results : ReportsUnit(validator, results[k], k)

\* A step of a running call evaluates the one next unit and keeps what was
\* collected; a running call is left only by its return, and nothing that
\* is not handled by the handler around the call returns before the last
\* unit.
OneUnitAtATime ==
    run.name \in Validators =>
        /\ run'.name \in {run.name, "idle"}
        /\ (run'.name = run.name /\ ~run'.raised) =>
              /\ run'.at = run.at + 1
              /\ Len(results') = Len(results) + 1
              /\ SubSeq(results', 1, Len(results)) = results
        /\ (run'.name = "idle" /\ ~run.raised) =>
              /\ results' = results
              /\ run.at = UnitCount(run.name)

\* C29: a validator evaluates its units one after the other and runs to
\* completion: every Data Access call returning or raising, a call that has
\* started returns; each group or column is evaluated once, and the records
\* are in the order in which their group (or record) first occurs in the
\* metadata, a table-level record carrying the feed of the first record of
\* its group.
C29_RunsToCompletion ==
    /\ []InUnitOrder
    /\ [][OneUnitAtATime]_vars
    /\ (run.name # "idle") ~> (run.name = "idle")

\* A table-level call between its two groups, the second table's record
\* first because its record is first in the metadata.
C29_Witness ==
    /\ run.name = "count_check"
    /\ run.at = 1
    /\ Len(metadata) = 2
    /\ metadata[1].db_table = TblDotted
    /\ metadata[2].db_table = TblPlain
    /\ results[1].table_name = TblDotted
    /\ results[1].feed_name = "f2"

====
